---- MODULE Spec2Model ----
(***************************************************************************)
(* Verification model of varlord: the resolver (source merging with and    *)
(* without a PriorityPolicy), the PriorityPolicy glob matching, the Config *)
(* load pipeline (model defaults + user sources, flat-to-nested mapping)   *)
(* and the model / configuration validators.                               *)
(*                                                                         *)
(* Representation.                                                         *)
(*  - A key or a glob pattern is a sequence of one-character strings,      *)
(*    e.g. <<"d", ".", "h">> is the key "d.h".                             *)
(*  - A Python dict is an insertion-ordered sequence of <<key, value>>     *)
(*    pairs with pairwise distinct keys.                                   *)
(*  - A value is a tagged record: [tag |-> "str", val |-> string],         *)
(*    [tag |-> "int", val |-> integer], [tag |-> "dict", val |-> dict] or  *)
(*    [tag |-> "inst", val |-> dict] (a dataclass instance with its field  *)
(*    dict).                                                               *)
(***************************************************************************)
EXTENDS Integers, Sequences, FiniteSets, TLC

VARIABLES
    model,        \* the dataclass model (schema) handed to Config / validators
    sources,      \* the ordered list of sources: records [name, snap]
    policy,       \* the optional PriorityPolicy
    config_dict,  \* the value map handed to validate_config / the mapper
    outcome,      \* what the last operation returned or raised
    store         \* the ConfigStore made by load_store, with its callers

vars == <<model, sources, policy, config_dict, outcome, store>>

(***************************************************************************)
(* Values and insertion-ordered dicts                                      *)
(***************************************************************************)
Str(s) == [tag |-> "str", val |-> s]
Int_(n) == [tag |-> "int", val |-> n]
Dict(d) == [tag |-> "dict", val |-> d]
Inst(d) == [tag |-> "inst", val |-> d]
IsDict(v) == v.tag = "dict"
IsInst(v) == v.tag = "inst"

EmptyDict == << >>

Has(d, k) == \E i \in 1..Len(d) : d[i][1] = k

Get(d, k) == d[CHOOSE i \in 1..Len(d) : d[i][1] = k][2]

\* d[k] = v: an existing key keeps its position, a new key is appended.
Put(d, k, v) ==
    IF Has(d, k)
    THEN [i \in 1..Len(d) |-> IF d[i][1] = k THEN <<k, v>> ELSE d[i]]
    ELSE Append(d, <<k, v>>)

KeysOf(d) == {d[i][1] : i \in 1..Len(d)}

\* All sequences without repetition that enumerate the finite set S.
OrderingsOf(S) ==
    {q \in [1..Cardinality(S) -> S] : \A i, j \in 1..Cardinality(S) : q[i] = q[j] => i = j}

\* All sequences over S of length at most n.
SeqsUpTo(S, n) == UNION {[1..m -> S] : m \in 0..n}

\* Sequences over S of length at most n without repeated elements.
DistinctSeqsUpTo(S, n) ==
    {q \in SeqsUpTo(S, n) : \A i, j \in 1..Len(q) : q[i] = q[j] => i = j}

(***************************************************************************)
(* PriorityPolicy.get_priority                                             *)
(***************************************************************************)
\* pattern.replace(".", r"\.").replace("*", ".*") on character sequences.
RECURSIVE GlobToRegex(_)
GlobToRegex(pattern) ==
    IF pattern = << >> THEN << >>
    ELSE LET c == Head(pattern)
             rest == GlobToRegex(Tail(pattern))
         IN IF c = "." THEN <<"\\", ".">> \o rest
            ELSE IF c = "*" THEN <<".", "*">> \o rest
            ELSE <<c>> \o rest

\* re.match(regex, s): the regex must match a prefix of s (anchored at the
\* start only).  The regex language produced by GlobToRegex has escaped
\* characters, ".*" and literal characters.
RECURSIVE ReMatch(_, _)
ReMatch(re, s) ==
    IF re = << >> THEN TRUE
    ELSE IF Head(re) = "\\"
         THEN /\ Len(s) > 0
              /\ s[1] = re[2]
              /\ ReMatch(SubSeq(re, 3, Len(re)), Tail(s))
    ELSE IF Head(re) = "." /\ Len(re) >= 2 /\ re[2] = "*"
         THEN \E i \in 0..Len(s) :
                 ReMatch(SubSeq(re, 3, Len(re)), SubSeq(s, i + 1, Len(s)))
    ELSE /\ Len(s) > 0
         /\ s[1] = Head(re)
         /\ ReMatch(Tail(re), Tail(s))

PatternMatches(pattern, key) == ReMatch(GlobToRegex(pattern), key)

\* A mutant of FirstMatch in which the last matching pattern decides.
RECURSIVE LastMatch(_, _, _)
LastMatch(overrides, key, default) ==
    IF overrides = << >> THEN default
    ELSE IF PatternMatches(overrides[Len(overrides)][1], key)
         THEN overrides[Len(overrides)][2]
    ELSE LastMatch(SubSeq(overrides, 1, Len(overrides) - 1), key, default)

\* The overrides dict is scanned in declaration order; the first pattern
\* that matches decides.  An empty overrides dict is falsy.
RECURSIVE FirstMatch(_, _, _)
FirstMatch(overrides, key, default) ==
    IF overrides = << >> THEN default
    ELSE IF PatternMatches(overrides[1][1], key) THEN overrides[1][2]
    ELSE FirstMatch(Tail(overrides), key, default)

get_priority(pol, key) == FirstMatch(pol.overrides, key, pol.default)

(***************************************************************************)
(* Resolver                                                                *)
(***************************************************************************)
\* A mutant of deep_merge that keeps the value already in base.
RECURSIVE deep_merge_first_wins(_, _)
deep_merge_first_wins(base, update) ==
    IF update = << >> THEN base
    ELSE deep_merge_first_wins(
             IF Has(base, update[1][1]) THEN base
             ELSE Put(base, update[1][1], update[1][2]),
             Tail(update))

\* base[key] = value unless both sides are dicts, which merge recursively.
RECURSIVE deep_merge(_, _)
deep_merge(base, update) ==
    IF update = << >> THEN base
    ELSE LET key == update[1][1]
             value == update[1][2]
             merged ==
                 IF Has(base, key) /\ IsDict(Get(base, key)) /\ IsDict(value)
                 THEN Put(base, key, Dict(deep_merge(Get(base, key).val, value.val)))
                 ELSE Put(base, key, value)
         IN deep_merge(merged, Tail(update))

\* The no-policy path of Resolver.resolve: merge the snapshots in list order.
RECURSIVE resolve_in_order(_, _)
resolve_in_order(srcs, result) ==
    IF srcs = << >> THEN result
    ELSE resolve_in_order(Tail(srcs), deep_merge(result, srcs[1].snap))

\* A mutant of load_all that keeps the first snapshot loaded under a name.
RECURSIVE load_all_first_kept(_, _)
load_all_first_kept(srcs, all_configs) ==
    IF srcs = << >> THEN all_configs
    ELSE load_all_first_kept(
             Tail(srcs),
             IF Has(all_configs, srcs[1].name) THEN all_configs
             ELSE Put(all_configs, srcs[1].name, srcs[1].snap))

\* all_configs[source.name] = source.load() for each source in list order:
\* a later source replaces an earlier one of the same name.
RECURSIVE load_all(_, _)
load_all(srcs, all_configs) ==
    IF srcs = << >> THEN all_configs
    ELSE load_all(Tail(srcs), Put(all_configs, srcs[1].name, srcs[1].snap))

\* The union of the keys of all loaded snapshots.
all_keys(all_configs) == UNION {KeysOf(all_configs[i][2]) : i \in 1..Len(all_configs)}

\* A mutant of apply_priority that stops at the first name that supplies the key.
RECURSIVE apply_priority_first_wins(_, _, _, _)
apply_priority_first_wins(names, key, all_configs, result) ==
    IF names = << >> THEN result
    ELSE IF Has(all_configs, Head(names)) /\ Has(Get(all_configs, Head(names)), key)
         THEN Put(result, key, Get(Get(all_configs, Head(names)), key))
    ELSE apply_priority_first_wins(Tail(names), key, all_configs, result)

\* A mutant of apply_priority that gives up at a name without a source.
RECURSIVE apply_priority_stop_unknown(_, _, _, _)
apply_priority_stop_unknown(names, key, all_configs, result) ==
    IF names = << >> THEN result
    ELSE IF ~Has(all_configs, Head(names)) THEN result
    ELSE apply_priority_stop_unknown(
             Tail(names), key, all_configs,
             IF Has(Get(all_configs, Head(names)), key)
             THEN Put(result, key, Get(Get(all_configs, Head(names)), key))
             ELSE result)

\* The inner loop over priority_names for one key.
RECURSIVE apply_priority(_, _, _, _)
apply_priority(names, key, all_configs, result) ==
    IF names = << >> THEN result
    ELSE LET source_name == Head(names)
             next ==
                 IF Has(all_configs, source_name) /\ Has(Get(all_configs, source_name), key)
                 THEN Put(result, key, Get(Get(all_configs, source_name), key))
                 ELSE result
         IN apply_priority(Tail(names), key, all_configs, next)

\* The outer loop of _resolve_with_policy over the keys in iteration order.
RECURSIVE resolve_keys(_, _, _, _)
resolve_keys(keyorder, pol, all_configs, result) ==
    IF keyorder = << >> THEN result
    ELSE resolve_keys(Tail(keyorder), pol, all_configs,
                      apply_priority(get_priority(pol, Head(keyorder)), Head(keyorder),
                                     all_configs, result))

\* _resolve_with_policy for one iteration order of the key set.
resolve_with_policy(srcs, pol, keyorder) ==
    resolve_keys(keyorder, pol, load_all(srcs, EmptyDict), EmptyDict)

(***************************************************************************)
(* Bounded inputs of the resolver specifications                           *)
(***************************************************************************)
MaxSources == 2
MaxOverrides == 2

NoModel == << >>
NoPolicy == [has |-> FALSE, default |-> << >>, overrides |-> << >>]
Policy(default, overrides) == [has |-> TRUE, default |-> default, overrides |-> overrides]
NoOutcome == [kind |-> "none"]
NoStore == [made |-> FALSE]

SourceNames == {"defaults", "env"}

\* Keys: "s" (the secret), "sx" (a longer key starting with "s"), "p" (another
\* key), "d.h" and "dxh" (a dotted key and one differing only in the dot).
k_s == <<"s">>
k_sx == <<"s", "x">>
k_p == <<"p">>
k_dh == <<"d", ".", "h">>
k_dxh == <<"d", "x", "h">>
k_x == <<"x">>
k_db == <<"d", "b">>
k_h == <<"h">>
k_port == <<"p", "o">>

FlatKeys == {k_s, k_sx, k_p}

\* The snapshot of the i-th source over the key set ks: every value carries
\* the position i of its source, so the origin of a resolved value is visible.
RECURSIVE SnapOver(_, _)
SnapOver(keyseq, i) ==
    IF keyseq = << >> THEN EmptyDict
    ELSE <<<<Head(keyseq), Int_(i)>>>> \o SnapOver(Tail(keyseq), i)

FlatSnapshots(i) ==
    {SnapOver(q, i) : q \in {<< >>, <<k_s>>, <<k_sx>>, <<k_p>>, <<k_s, k_sx>>,
                            <<k_s, k_p>>, <<k_sx, k_p>>, <<k_s, k_sx, k_p>>}}

\* Snapshots with nested maps for the deep merge: x is a leaf, db is absent, a
\* leaf, a full group {h, po} or a partial group {h}.
NestedSnapshots(i) ==
    LET xs == {EmptyDict, <<<<k_x, Int_(i)>>>>}
        dbs == {EmptyDict,
                <<<<k_db, Int_(i)>>>>,
                <<<<k_db, Dict(<<<<k_h, Int_(i)>>, <<k_port, Int_(i)>>>>)>>>>,
                <<<<k_db, Dict(<<<<k_h, Int_(i)>>>>)>>>>}
    IN {a \o b : a \in xs, b \in dbs}

SourceLists(Snaps(_)) ==
    UNION {{q \in [1..n -> [name : SourceNames, snap : UNION {Snaps(i) : i \in 1..n}]] :
               \A i \in 1..n : q[i].snap \in Snaps(i)} : n \in 0..MaxSources}

PolicyNames == SourceNames \cup {"etcd"}

\* Order lists used by the resolver policies; "etcd" names no supplied source.
ResolverOrders ==
    {<<"defaults", "env">>, <<"env", "defaults">>, <<"defaults">>, <<"etcd", "env">>}

\* Order lists used by the overrides of the resolver policies.
OverrideOrders == {<<"defaults">>, <<"etcd", "env">>}

ResolverPatterns == {<<"s">>}

OverridesOver(patterns, orders) ==
    {q \in SeqsUpTo(patterns \X orders, MaxOverrides) :
        \A i, j \in 1..Len(q) : q[i][1] = q[j][1] => i = j}

ResolverPolicies ==
    {Policy(d, o) : d \in ResolverOrders, o \in OverridesOver(ResolverPatterns, OverrideOrders)}

(***************************************************************************)
(* Resolver.resolve as an action                                           *)
(***************************************************************************)
Resolve ==
    /\ outcome.kind = "none"
    /\ IF policy.has
       THEN \E keyorder \in OrderingsOf(all_keys(load_all(sources, EmptyDict))) :
               outcome' = [kind |-> "resolved",
                           map |-> resolve_with_policy(sources, policy, keyorder)]
       ELSE outcome' = [kind |-> "resolved", map |-> resolve_in_order(sources, EmptyDict)]
    /\ UNCHANGED <<model, sources, policy, config_dict, store>>

InitResolver ==
    /\ model = NoModel
    /\ config_dict = EmptyDict
    /\ outcome = NoOutcome
    /\ store = NoStore
    /\ \/ /\ policy = NoPolicy
          /\ sources \in SourceLists(NestedSnapshots)
       \/ /\ policy \in ResolverPolicies
          /\ sources \in SourceLists(FlatSnapshots)

NextResolver == Resolve

SpecResolver == InitResolver /\ [][NextResolver]_vars

(***************************************************************************)
(* PriorityPolicy.get_priority as an action                                *)
(***************************************************************************)
PolicyKeys == {k_s, k_sx, k_p, k_dh, k_dxh}

PolicyPatterns == {<<"s">>, <<"s", "*">>, <<"s", "x">>, <<"*">>, <<"d", ".", "*">>}

PolicyOrders == {<<"defaults">>, <<"env">>, <<"env", "defaults">>}

PriorityPolicies ==
    {Policy(d, o) : d \in {<<"defaults", "env">>},
                    o \in OverridesOver(PolicyPatterns, PolicyOrders)}

GetPriority ==
    /\ outcome.kind = "none"
    /\ \E key \in PolicyKeys :
          outcome' = [kind |-> "priority", key |-> key, order |-> get_priority(policy, key)]
    /\ UNCHANGED <<model, sources, policy, config_dict, store>>

InitPolicy ==
    /\ model = NoModel
    /\ sources = << >>
    /\ config_dict = EmptyDict
    /\ outcome = NoOutcome
    /\ store = NoStore
    /\ policy \in PriorityPolicies

NextPolicy == GetPriority

SpecPolicy == InitPolicy /\ [][NextPolicy]_vars

(***************************************************************************)
(* Key normalisation                                                       *)
(***************************************************************************)
UpperCase == <<"A", "B", "C", "D", "E", "F", "G", "H", "I", "J", "K", "L", "M",
               "N", "O", "P", "Q", "R", "S", "T", "U", "V", "W", "X", "Y", "Z">>
LowerCase == <<"a", "b", "c", "d", "e", "f", "g", "h", "i", "j", "k", "l", "m",
               "n", "o", "p", "q", "r", "s", "t", "u", "v", "w", "x", "y", "z">>

\* str.lower() on one character.
LowerChar(c) ==
    IF \E i \in 1..Len(UpperCase) : UpperCase[i] = c
    THEN LowerCase[CHOOSE i \in 1..Len(UpperCase) : UpperCase[i] = c]
    ELSE c

\* A mutant of ReplaceDunder that replaces the first "__" only
\* (key.replace("__", ".", 1)).
RECURSIVE ReplaceDunderOnce(_)
ReplaceDunderOnce(key) ==
    IF key = << >> THEN << >>
    ELSE IF Len(key) >= 2 /\ key[1] = "_" /\ key[2] = "_"
         THEN <<".">> \o SubSeq(key, 3, Len(key))
    ELSE <<key[1]>> \o ReplaceDunderOnce(Tail(key))

\* A mutant of ReplaceDunder whose matches overlap: after a match the scan
\* goes on at the second underscore.
RECURSIVE ReplaceDunderOverlapping(_)
ReplaceDunderOverlapping(key) ==
    IF key = << >> THEN << >>
    ELSE IF Len(key) >= 2 /\ key[1] = "_" /\ key[2] = "_"
         THEN <<".">> \o ReplaceDunderOverlapping(Tail(key))
    ELSE <<key[1]>> \o ReplaceDunderOverlapping(Tail(key))

\* key.replace("__", "."): left to right, without overlap.
RECURSIVE ReplaceDunder(_)
ReplaceDunder(key) ==
    IF key = << >> THEN << >>
    ELSE IF Len(key) >= 2 /\ key[1] = "_" /\ key[2] = "_"
         THEN <<".">> \o ReplaceDunder(SubSeq(key, 3, Len(key)))
    ELSE <<key[1]>> \o ReplaceDunder(Tail(key))

normalize_key(key) ==
    IF key = << >> THEN << >>
    ELSE ReplaceDunder([i \in 1..Len(key) |-> LowerChar(key[i])])

\* The raw keys a source normalizes: every key over a small alphabet, and the
\* environment variable names of the documentation.
MaxKeyLen == 5
KeyAlphabet == {"A", "b", "_", "."}
k_APP_DB__HOST == <<"A", "P", "P", "_", "D", "B", "_", "_", "H", "O", "S", "T">>
k_APP__DB__HOST == <<"A", "P", "P", "_", "_", "D", "B", "_", "_", "H", "O", "S", "T">>
RawKeys == SeqsUpTo(KeyAlphabet, MaxKeyLen) \cup {k_APP_DB__HOST, k_APP__DB__HOST}

\* A source normalizes the key of a raw entry.
NormalizeKey ==
    /\ outcome.kind = "none"
    /\ outcome' = [kind |-> "normalized", raw |-> config_dict[1][1],
                   key |-> normalize_key(config_dict[1][1])]
    /\ UNCHANGED <<model, sources, policy, config_dict, store>>

\* The normalized key is normalized again (a source's key reaches the
\* resolver and the mapper already normalized).
NormalizeAgain ==
    /\ outcome.kind = "normalized"
    /\ outcome' = [kind |-> "renormalized", raw |-> outcome.raw, first |-> outcome.key,
                   key |-> normalize_key(outcome.key)]
    /\ UNCHANGED <<model, sources, policy, config_dict, store>>

InitNormalize ==
    /\ model = NoModel
    /\ sources = << >>
    /\ policy = NoPolicy
    /\ config_dict \in {<<<<k, Int_(1)>>>> : k \in RawKeys}
    /\ outcome = NoOutcome
    /\ store = NoStore

NextNormalize == NormalizeKey \/ NormalizeAgain

SpecNormalize == InitNormalize /\ [][NextNormalize]_vars

(***************************************************************************)
(* Dataclass models (schemas)                                              *)
(*                                                                         *)
(* A model is the sequence of its fields in declaration order.  A field is *)
(* [name, type, required, optional, default]; required and optional are    *)
(* the two metadata flags.  A type is a leaf type (py is "str" or "int",   *)
(* nullable says it is written Optional[T] / Union[T, None]) or a group:   *)
(* a nested dataclass with its own fields.                                 *)
(***************************************************************************)
NoneV == [tag |-> "none", val |-> 0]

LeafType(py, nullable) == [kind |-> "leaf", py |-> py, nullable |-> nullable, fields |-> << >>]
GroupType(fields) == [kind |-> "group", py |-> "dataclass", nullable |-> FALSE, fields |-> fields]

NoDefault == [has |-> FALSE, val |-> NoneV]
DefaultOf(v) == [has |-> TRUE, val |-> v]

Field(name, type, required, optional, default) ==
    [name |-> name, type |-> type, required |-> required, optional |-> optional,
     default |-> default]

\* is_dataclass(field.type)
IsGroup(f) == f.type.kind = "group"

\* _is_optional_type(field.type): a Union with None among its arguments.
is_optional_type(type) == type.kind = "leaf" /\ type.nullable

\* get_all_fields_info(model): the flat catalogue of field descriptors in
\* declaration order, depth first.  A group field contributes the descriptors
\* of its children with its name and a dot put in front of their keys, and
\* no descriptor of its own.
RECURSIVE get_all_fields_info(_, _)
get_all_fields_info(fields, prefix) ==
    IF fields = << >> THEN << >>
    ELSE LET f == Head(fields)
             key == prefix \o normalize_key(f.name)
             here ==
                 IF IsGroup(f)
                 THEN get_all_fields_info(f.type.fields, key \o <<".">>)
                 ELSE <<[normalized_key |-> key, required |-> f.required,
                         optional |-> f.optional, default |-> f.default,
                         type |-> f.type]>>
         IN here \o get_all_fields_info(Tail(fields), prefix)

ModelDefinitionError(field_name, reason) ==
    [kind |-> "error", error |-> "ModelDefinitionError", field_name |-> field_name,
     reason |-> reason]

Ok == [kind |-> "ok"]

\* The first loop of validate_model_definition: the fields of the model itself.
RECURSIVE check_optional_types(_)
check_optional_types(fields) ==
    IF fields = << >> THEN Ok
    ELSE IF is_optional_type(Head(fields).type)
         THEN ModelDefinitionError(normalize_key(Head(fields).name), "optional_type")
    ELSE check_optional_types(Tail(fields))

\* A mutant of check_metadata that tests only for missing metadata.
RECURSIVE check_metadata_missing_only(_)
check_metadata_missing_only(field_infos) ==
    IF field_infos = << >> THEN Ok
    ELSE IF ~Head(field_infos).required /\ ~Head(field_infos).optional
         THEN ModelDefinitionError(Head(field_infos).normalized_key, "missing_metadata")
    ELSE check_metadata_missing_only(Tail(field_infos))

\* The second loop of validate_model_definition: the catalogue.
RECURSIVE check_metadata(_)
check_metadata(field_infos) ==
    IF field_infos = << >> THEN Ok
    ELSE LET field_info == Head(field_infos)
         IN IF field_info.required /\ field_info.optional
            THEN ModelDefinitionError(field_info.normalized_key, "conflicting_metadata")
            ELSE IF ~field_info.required /\ ~field_info.optional
            THEN ModelDefinitionError(field_info.normalized_key, "missing_metadata")
            ELSE check_metadata(Tail(field_infos))

validate_model_definition(m) ==
    LET first == check_optional_types(m)
    IN IF first.kind = "error" THEN first
       ELSE check_metadata(get_all_fields_info(m, << >>))

RequiredFieldError(missing_fields) ==
    [kind |-> "error", error |-> "RequiredFieldError", missing_fields |-> missing_fields]

\* A mutant of missing_required that reports only the first missing key.
RECURSIVE missing_required_first_only(_, _)
missing_required_first_only(field_infos, cd) ==
    IF field_infos = << >> THEN << >>
    ELSE IF Head(field_infos).required /\ ~Has(cd, Head(field_infos).normalized_key)
         THEN <<Head(field_infos).normalized_key>>
    ELSE missing_required_first_only(Tail(field_infos), cd)

\* The loop of validate_config: the required keys that config_dict lacks.
RECURSIVE missing_required(_, _)
missing_required(field_infos, cd) ==
    IF field_infos = << >> THEN << >>
    ELSE LET field_info == Head(field_infos)
             here == IF field_info.required /\ ~Has(cd, field_info.normalized_key)
                     THEN <<field_info.normalized_key>>
                     ELSE << >>
         IN here \o missing_required(Tail(field_infos), cd)

validate_config(m, cd) ==
    LET missing_fields == missing_required(get_all_fields_info(m, << >>), cd)
    IN IF missing_fields # << >> THEN RequiredFieldError(missing_fields) ELSE Ok

(***************************************************************************)
(* The validators as actions                                               *)
(***************************************************************************)
k_y == <<"y">>
k_c == <<"c">>
k_e == <<"e">>

\* A leaf field with every combination of the two flags and of a nullable type.
AnyLeaf(name) ==
    {Field(name, LeafType("str", n), r, o, NoDefault) : r \in BOOLEAN, o \in BOOLEAN,
                                                        n \in BOOLEAN}

\* A group field, declared required as in the repository's tests.
Group(name, fields) == Field(name, GroupType(fields), TRUE, FALSE, NoDefault)

\* Schemas of depth one, two and three.
DefinitionModels ==
    {<<x>> : x \in AnyLeaf(k_x)}
    \cup {<<x, y>> : x \in AnyLeaf(k_x), y \in AnyLeaf(k_y)}
    \cup {<<x, Group(k_db, <<h>>)>> : x \in AnyLeaf(k_x), h \in AnyLeaf(k_h)}
    \cup {<<Group(k_db, <<h, Group(k_c, <<e>>)>>)>> : h \in AnyLeaf(k_h), e \in AnyLeaf(k_e)}

ValidateModelDefinition ==
    /\ outcome.kind = "none"
    /\ outcome' = validate_model_definition(model)
    /\ UNCHANGED <<model, sources, policy, config_dict, store>>

InitModelDef ==
    /\ model \in DefinitionModels
    /\ sources = << >>
    /\ policy = NoPolicy
    /\ config_dict = EmptyDict
    /\ outcome = NoOutcome
    /\ store = NoStore

NextModelDef == ValidateModelDefinition

SpecModelDef == InitModelDef /\ [][NextModelDef]_vars

\* A leaf field with exactly one of the two flags and a plain type.
ValidLeaf(name) ==
    {Field(name, LeafType("str", FALSE), r, ~r, NoDefault) : r \in BOOLEAN}

ValidModels ==
    {<<x, y>> : x \in ValidLeaf(k_x), y \in ValidLeaf(k_y)}
    \cup {<<x, Group(k_db, <<h, po>>)>> :
             x \in ValidLeaf(k_x), h \in ValidLeaf(k_h), po \in ValidLeaf(k_port)}
    \cup {<<Group(k_db, <<h, Group(k_c, <<e>>)>>)>> : h \in ValidLeaf(k_h), e \in ValidLeaf(k_e)}

\* Values a key of the value map may hold: null, the empty string, an empty
\* collection and an ordinary value.
PresentValues == {NoneV, Str(""), Dict(EmptyDict), Int_(1)}

\* The value maps over the keys of keyseq: each key is absent or present.
RECURSIVE DictsOver(_, _)
DictsOver(keyseq, values) ==
    IF keyseq = << >> THEN {EmptyDict}
    ELSE {head \o rest :
             head \in {EmptyDict} \cup {<<<<Head(keyseq), v>>>> : v \in values},
             rest \in DictsOver(Tail(keyseq), values)}

CatalogueKeys(m) ==
    LET infos == get_all_fields_info(m, << >>)
    IN [i \in 1..Len(infos) |-> infos[i].normalized_key]

ValidateConfig ==
    /\ outcome.kind = "none"
    /\ outcome' = validate_config(model, config_dict)
    /\ UNCHANGED <<model, sources, policy, config_dict, store>>

InitValidateConfig ==
    /\ model \in ValidModels
    /\ sources = << >>
    /\ policy = NoPolicy
    /\ config_dict \in DictsOver(CatalogueKeys(model), PresentValues)
    /\ outcome = NoOutcome
    /\ store = NoStore

NextValidateConfig == ValidateConfig

SpecValidateConfig == InitValidateConfig /\ [][NextValidateConfig]_vars

(***************************************************************************)
(* Structural mapper: Config._flatten_to_nested and Config._dict_to_model  *)
(*                                                                         *)
(* An operation that may raise returns [ok, val, err]: ok with its value,  *)
(* or not ok with the name of the exception.                               *)
(***************************************************************************)
Returned(v) == [ok |-> TRUE, val |-> v, err |-> ""]
Raised(e) == [ok |-> FALSE, val |-> EmptyDict, err |-> e]

HasField(fields, name) == \E i \in 1..Len(fields) : fields[i].name = name
FieldNamed(fields, name) == fields[CHOOSE i \in 1..Len(fields) : fields[i].name = name]

\* "." in key, and key.split(".", 1)
HasDot(key) == \E i \in 1..Len(key) : key[i] = "."
SplitFirstDot(key) ==
    LET i == CHOOSE j \in 1..Len(key) :
                 key[j] = "." /\ \A h \in 1..(j - 1) : key[h] # "."
    IN <<SubSeq(key, 1, i - 1), SubSeq(key, i + 1, Len(key))>>

\* dataclasses.asdict: instances become dicts, recursively.
RECURSIVE asdict(_)
asdict(v) ==
    IF IsInst(v) \/ IsDict(v)
    THEN Dict([i \in 1..Len(v.val) |-> <<v.val[i][1], asdict(v.val[i][2])>>])
    ELSE v

\* asdict(v) if is_dataclass(type(v)) else v
PlainValue(v) == IF IsInst(v) THEN asdict(v) ELSE v

PlainItems(d) == [i \in 1..Len(d) |-> <<d[i][1], PlainValue(d[i][2])>>]

NumericStrings == <<"0", "1", "2", "3">>

\* convert_value(value, type): a numeric string becomes a number of a numeric
\* type, a value of the declared type is returned as it is, a string that is
\* no number raises ValueError for a numeric type.
convert_value(value, type) ==
    IF type.kind = "leaf" /\ type.py = "int" /\ value.tag = "str"
    THEN IF \E i \in 1..Len(NumericStrings) : NumericStrings[i] = value.val
         THEN Returned(Int_((CHOOSE i \in 1..Len(NumericStrings) :
                                NumericStrings[i] = value.val) - 1))
         ELSE Raised("ValueError")
    ELSE Returned(value)

\* A mutant of Coerced that puts None where the conversion failed.
CoercedOrNone(value, type) ==
    LET c == convert_value(value, type) IN IF c.ok THEN c.val ELSE NoneV

\* try: convert_value(...) except (ValueError, TypeError): keep the raw value
Coerced(value, type) ==
    LET c == convert_value(value, type) IN IF c.ok THEN c.val ELSE value

\* A mutant of construct_fields that leaves out the fields not given.
construct_fields_partial(fields, kwargs, built) ==
    Returned(Inst(SelectSeq([i \in 1..Len(fields) |->
                                <<fields[i].name,
                                  IF Has(kwargs, fields[i].name) THEN Get(kwargs, fields[i].name)
                                  ELSE NoneV>>],
                            LAMBDA it : Has(kwargs, it[1]))))

\* cls(**kwargs) for a dataclass: a field without a default must be given.
RECURSIVE construct_fields(_, _, _)
construct_fields(fields, kwargs, built) ==
    IF fields = << >> THEN Returned(Inst(built))
    ELSE LET f == Head(fields)
         IN IF Has(kwargs, f.name)
            THEN construct_fields(Tail(fields), kwargs, Append(built, <<f.name, Get(kwargs, f.name)>>))
            ELSE IF f.default.has
            THEN construct_fields(Tail(fields), kwargs, Append(built, <<f.name, f.default.val>>))
            ELSE Raised("TypeError")

\* cls(**kwargs): a keyword that names no field is a TypeError as well.
construct(fields, kwargs) ==
    IF \E i \in 1..Len(kwargs) : ~HasField(fields, kwargs[i][1])
    THEN Raised("TypeError")
    ELSE construct_fields(fields, kwargs, EmptyDict)

\* A mutant of flat_keys_step that places every key without a dot.
RECURSIVE flat_keys_step_any(_, _, _)
flat_keys_step_any(items, fields, result) ==
    IF items = << >> THEN result
    ELSE LET key == items[1][1]
             value == items[1][2]
         IN flat_keys_step_any(
                Tail(items), fields,
                IF ~HasDot(key)
                THEN Put(result, key, IF HasField(fields, key)
                                      THEN Coerced(value, FieldNamed(fields, key).type)
                                      ELSE value)
                ELSE result)

\* A mutant of flat_keys_step that places the values of leaf fields only.
RECURSIVE flat_keys_step_leaves(_, _, _)
flat_keys_step_leaves(items, fields, result) ==
    IF items = << >> THEN result
    ELSE LET key == items[1][1]
             value == items[1][2]
         IN flat_keys_step_leaves(
                Tail(items), fields,
                IF ~HasDot(key) /\ HasField(fields, key) /\ ~IsGroup(FieldNamed(fields, key))
                THEN Put(result, key, Coerced(value, FieldNamed(fields, key).type))
                ELSE result)

\* Step 2: the keys without a dot that name a field, coerced.
RECURSIVE flat_keys_step(_, _, _)
flat_keys_step(items, fields, result) ==
    IF items = << >> THEN result
    ELSE LET key == items[1][1]
             value == items[1][2]
         IN flat_keys_step(
                Tail(items), fields,
                IF ~HasDot(key) /\ HasField(fields, key)
                THEN Put(result, key, Coerced(value, FieldNamed(fields, key).type))
                ELSE result)

\* nested_flat = {child_key: value} plus the existing keys it does not hold.
RECURSIVE add_missing(_, _)
add_missing(nested_flat, existing) ==
    IF existing = << >> THEN nested_flat
    ELSE add_missing(IF Has(nested_flat, existing[1][1]) THEN nested_flat
                     ELSE Append(nested_flat, existing[1]),
                     Tail(existing))

\* for k, v in items: d[k] = v
RECURSIVE put_all(_, _)
put_all(d, items) ==
    IF items = << >> THEN d
    ELSE put_all(Put(d, items[1][1], items[1][2]), Tail(items))

RECURSIVE flatten_to_nested(_, _)
RECURSIVE nested_keys_step(_, _, _, _)
RECURSIVE instantiate_step(_, _, _)

\* A mutant of nested_keys_step that starts the parent's dict afresh for
\* every dotted key instead of keeping the one built so far.
RECURSIVE nested_keys_step_reset(_, _, _, _)
nested_keys_step_reset(items, processed, fields, result) ==
    IF items = << >> THEN Returned(result)
    ELSE LET key == items[1][1]
             value == items[1][2]
         IN IF ~HasDot(key) THEN nested_keys_step_reset(Tail(items), processed, fields, result)
            ELSE
            LET parent_key == SplitFirstDot(key)[1]
                child_key == SplitFirstDot(key)[2]
            IN IF ~(HasField(fields, parent_key) /\ IsGroup(FieldNamed(fields, parent_key)))
               THEN nested_keys_step_reset(Tail(items), processed, fields, result)
               ELSE
               LET field == FieldNamed(fields, parent_key)
                   initialised == Put(result, parent_key, Dict(EmptyDict))
                   current == Get(initialised, parent_key).val
                   nested_flat == add_missing(<<<<child_key, value>>>>, PlainItems(current))
                   nested_result == flatten_to_nested(nested_flat, field.type.fields)
               IN IF ~nested_result.ok THEN nested_result
                  ELSE nested_keys_step_reset(
                           Tail(items), processed, fields,
                           Put(initialised, parent_key,
                               Dict(put_all(current, PlainItems(nested_result.val)))))

\* Step 3: the keys with a dot whose first segment names a group field.
nested_keys_step(items, processed, fields, result) ==
    IF items = << >> THEN Returned(result)
    ELSE LET key == items[1][1]
             value == items[1][2]
         IN IF ~HasDot(key) THEN nested_keys_step(Tail(items), processed, fields, result)
            ELSE
            LET parent_key == SplitFirstDot(key)[1]
                child_key == SplitFirstDot(key)[2]
            IN IF ~(HasField(fields, parent_key) /\ IsGroup(FieldNamed(fields, parent_key)))
               THEN nested_keys_step(Tail(items), processed, fields, result)
               ELSE
               LET field == FieldNamed(fields, parent_key)
                   initialised ==
                       IF ~Has(result, parent_key)
                       THEN IF Has(processed, parent_key) /\ IsDict(Get(processed, parent_key))
                            THEN Put(result, parent_key, Get(processed, parent_key))
                            ELSE Put(result, parent_key, Dict(EmptyDict))
                       ELSE IF ~IsDict(Get(result, parent_key))
                            THEN Put(result, parent_key, Dict(EmptyDict))
                            ELSE result
                   current == Get(initialised, parent_key).val
                   existing_nested == PlainItems(current)
                   nested_flat == add_missing(<<<<child_key, value>>>>, existing_nested)
                   nested_result == flatten_to_nested(nested_flat, field.type.fields)
               IN IF ~nested_result.ok THEN nested_result
                  ELSE nested_keys_step(
                           Tail(items), processed, fields,
                           Put(initialised, parent_key,
                               Dict(put_all(current, PlainItems(nested_result.val)))))

\* Step 4: every dict held for a group field becomes an instance of the group.
instantiate_step(items, fields, result) ==
    IF items = << >> THEN Returned(result)
    ELSE LET key == items[1][1]
             value == items[1][2]
         IN IF ~(HasField(fields, key) /\ IsGroup(FieldNamed(fields, key)) /\ IsDict(value))
            THEN instantiate_step(Tail(items), fields, result)
            ELSE
            LET nested_fields == FieldNamed(fields, key).type.fields
                value_dict == PlainItems(value.val)
                nested_instance == flatten_to_nested(value_dict, nested_fields)
            IN IF ~nested_instance.ok THEN nested_instance
               ELSE
               LET converted ==
                       [i \in 1..Len(nested_instance.val) |->
                           LET nk == nested_instance.val[i][1]
                               nv == nested_instance.val[i][2]
                           IN <<nk, IF HasField(nested_fields, nk)
                                    THEN Coerced(nv, FieldNamed(nested_fields, nk).type)
                                    ELSE nv>>]
                   instance == construct(nested_fields, converted)
               IN IF ~instance.ok THEN instance
                  ELSE instantiate_step(Tail(items), fields, Put(result, key, instance.val))

flatten_to_nested(flat_dict, fields) ==
    LET flat_dict_processed == PlainItems(flat_dict)
        flat == flat_keys_step(flat_dict_processed, fields, EmptyDict)
        nested == nested_keys_step(flat_dict_processed, flat_dict_processed, fields, flat)
    IN IF ~nested.ok THEN nested
       ELSE instantiate_step(nested.val, fields, nested.val)

\* Config._dict_to_model: map, then construct the model instance.
dict_to_model(cd, m) ==
    LET nested_dict == flatten_to_nested(cd, m)
    IN IF ~nested_dict.ok THEN nested_dict ELSE construct(m, nested_dict.val)

(***************************************************************************)
(* The mapper as an action                                                 *)
(***************************************************************************)
\* A leaf field of a mapped model: required without a default, or optional
\* with the default 0 (the value map holds 1, 2, ...).
MapperLeaf(name) ==
    {Field(name, LeafType("int", FALSE), TRUE, FALSE, NoDefault),
     Field(name, LeafType("int", FALSE), FALSE, TRUE, DefaultOf(Int_(0)))}

\* Models with a top-level leaf x and a group db of three leaves.
MapperModels ==
    {<<x, Field(k_db, GroupType(<<h, po, e>>), TRUE, FALSE, NoDefault)>> :
        x \in MapperLeaf(k_x), h \in MapperLeaf(k_h), po \in MapperLeaf(k_port),
        e \in MapperLeaf(k_e)}

DottedKeys == {k_db \o <<".">> \o f : f \in {k_h, k_port, k_e}}

\* Value maps: x or not, then dotted entries of db in any order, each with
\* the position of its entry as value.
MapperDicts ==
    {head \o tail :
        head \in {EmptyDict, <<<<k_x, Int_(9)>>>>},
        tail \in {[i \in 1..Len(q) |-> <<q[i], Int_(i)>>] :
                     q \in UNION {OrderingsOf(ks) : ks \in SUBSET DottedKeys}}}

\* Config._dict_to_model(config_dict)
MapDict ==
    /\ outcome.kind = "none"
    /\ LET instance == dict_to_model(config_dict, model)
       IN outcome' = IF instance.ok THEN [kind |-> "mapped", app |-> instance.val]
                     ELSE [kind |-> "error", error |-> instance.err]
    /\ UNCHANGED <<model, sources, policy, config_dict, store>>

InitMapper ==
    /\ model \in MapperModels
    /\ sources = << >>
    /\ policy = NoPolicy
    /\ config_dict \in MapperDicts
    /\ outcome = NoOutcome
    /\ store = NoStore

NextMapper == MapDict

SpecMapper == InitMapper /\ [][NextMapper]_vars

(***************************************************************************)
(* Config: model defaults, _load_config_dict and load                      *)
(***************************************************************************)
\* Config._extract_model_defaults: the defaults of the catalogue, flat.
RECURSIVE extract_model_defaults(_)
extract_model_defaults(field_infos) ==
    IF field_infos = << >> THEN EmptyDict
    ELSE (IF Head(field_infos).default.has
          THEN <<<<Head(field_infos).normalized_key, Head(field_infos).default.val>>>>
          ELSE EmptyDict) \o extract_model_defaults(Tail(field_infos))

\* Config._create_defaults_source: a Defaults source, named "defaults".
create_defaults_source(m) ==
    [name |-> "defaults", snap |-> extract_model_defaults(get_all_fields_info(m, << >>))]

\* all_sources = [defaults_source] + self._sources
all_sources(m, srcs) == <<create_defaults_source(m)>> \o srcs

\* Config._load_config_dict: the defaults source first, then resolve.
load_config_dict(m, srcs, pol, keyorder) ==
    IF pol.has
    THEN resolve_with_policy(all_sources(m, srcs), pol, keyorder)
    ELSE resolve_in_order(all_sources(m, srcs), EmptyDict)

k_db_h == k_db \o <<".">> \o k_h

\* A leaf field of a loadable model: required without a default, or optional
\* with the default 0 (the sources supply 1, 2, ...).
ConfigLeaf(name) ==
    {Field(name, LeafType("int", FALSE), TRUE, FALSE, NoDefault),
     Field(name, LeafType("int", FALSE), FALSE, TRUE, DefaultOf(Int_(0)))}

\* The default of a group field: default_factory builds the group from the
\* defaults of its fields when each of them has one.
GroupDefault(fields) ==
    IF \A i \in 1..Len(fields) : fields[i].default.has
    THEN DefaultOf(Inst([i \in 1..Len(fields) |-> <<fields[i].name, fields[i].default.val>>]))
    ELSE NoDefault

ConfigGroup(name, fields) == Field(name, GroupType(fields), TRUE, FALSE, GroupDefault(fields))

ConfigModels ==
    {<<x, ConfigGroup(k_db, <<h, po>>)>> :
        x \in ConfigLeaf(k_x), h \in ConfigLeaf(k_h), po \in ConfigLeaf(k_port)}

\* Snapshots of the i-th user source without a policy: x, the group db as a
\* nested map (whole or host only) and the dotted key db.h.
ConfigNestedSnapshots(i) ==
    LET xs == {EmptyDict, <<<<k_x, Int_(i)>>>>}
        dbs == {EmptyDict,
                <<<<k_db, Dict(<<<<k_h, Int_(i)>>, <<k_port, Int_(i)>>>>)>>>>,
                <<<<k_db, Dict(<<<<k_h, Int_(i)>>>>)>>>>}
        dhs == {EmptyDict, <<<<k_db_h, Int_(i)>>>>}
    IN {a \o b \o c : a \in xs, b \in dbs, c \in dhs}

\* Snapshots of the i-th user source under a policy: flat keys.
ConfigFlatSnapshots(i) ==
    {SnapOver(q, i) : q \in {<< >>, <<k_x>>, <<k_db_h>>, <<k_x, k_db_h>>}}

ConfigSourceLists(names, Snaps(_)) ==
    UNION {{q \in [1..n -> [name : names, snap : UNION {Snaps(i) : i \in 1..n}]] :
               \A i \in 1..n : q[i].snap \in Snaps(i)} : n \in 0..MaxSources}

ConfigPolicies ==
    {Policy(d, o) : d \in {<<"defaults", "env">>, <<"env", "defaults">>, <<"env">>},
                    o \in {<< >>, <<<<k_x, <<"defaults">>>>>>}}

\* Config.load(validate): resolve, validate the required keys when asked to,
\* and map the value map onto an instance of the model.
Load ==
    /\ outcome.kind = "none"
    /\ \E validate \in BOOLEAN :
       \E keyorder \in (IF policy.has
                        THEN OrderingsOf(all_keys(load_all(all_sources(model, sources), EmptyDict)))
                        ELSE {<< >>}) :
          LET cd == load_config_dict(model, sources, policy, keyorder)
              checked == IF validate THEN validate_config(model, cd) ELSE Ok
              instance == dict_to_model(cd, model)
          IN /\ config_dict' = cd
             /\ outcome' = IF checked.kind = "error" THEN checked
                           ELSE IF ~instance.ok
                           THEN [kind |-> "error", error |-> instance.err]
                           ELSE [kind |-> "loaded", app |-> instance.val,
                                 validate |-> validate]
    /\ UNCHANGED <<model, sources, policy, store>>

InitConfig ==
    /\ model \in ConfigModels
    /\ config_dict = EmptyDict
    /\ outcome = NoOutcome
    /\ store = NoStore
    /\ \/ /\ policy = NoPolicy
          /\ sources \in ConfigSourceLists({"env"}, ConfigNestedSnapshots)
       \/ /\ policy \in ConfigPolicies
          /\ sources \in ConfigSourceLists(SourceNames, ConfigFlatSnapshots)

NextConfig == Load

SpecConfig == InitConfig /\ [][NextConfig]_vars

(***************************************************************************)
(* Config.__init__ and the first load of the constructed Config            *)
(*                                                                         *)
(* Here a source is [name, snap, own_model, injected, loads]: own_model    *)
(* says it was built with a model of its own, injected that Config set its *)
(* _model, loads counts the calls of its load().                           *)
(***************************************************************************)
\* Config._inject_model_to_sources
RECURSIVE inject_model_to_sources(_)
inject_model_to_sources(srcs) ==
    IF srcs = << >> THEN << >>
    ELSE <<IF ~Head(srcs).own_model THEN [Head(srcs) EXCEPT !.injected = TRUE]
           ELSE Head(srcs)>>
         \o inject_model_to_sources(Tail(srcs))

\* The result of Config.__init__: the error of the validation and the
\* sources as they were, or the constructed Config and the injected sources.
config_init(m, srcs) ==
    LET checked == validate_model_definition(m)
    IN IF checked.kind = "error"
       THEN [outcome |-> checked, sources |-> srcs]
       ELSE [outcome |-> [kind |-> "constructed"], sources |-> inject_model_to_sources(srcs)]

\* Config(model, sources)
Construct ==
    /\ outcome.kind = "none"
    /\ outcome' = config_init(model, sources).outcome
    /\ sources' = config_init(model, sources).sources
    /\ UNCHANGED <<model, policy, config_dict, store>>

\* cfg.load(validate) on the constructed Config: every source is loaded once.
ConstructedLoad ==
    /\ outcome.kind = "constructed"
    /\ \E validate \in BOOLEAN :
          LET cd == load_config_dict(model, sources, policy, << >>)
              checked == IF validate THEN validate_config(model, cd) ELSE Ok
              instance == dict_to_model(cd, model)
          IN /\ config_dict' = cd
             /\ outcome' = IF checked.kind = "error" THEN checked
                           ELSE IF ~instance.ok
                           THEN [kind |-> "error", error |-> instance.err]
                           ELSE [kind |-> "loaded", app |-> instance.val,
                                 validate |-> validate]
    /\ sources' = [i \in 1..Len(sources) |-> [sources[i] EXCEPT !.loads = @ + 1]]
    /\ UNCHANGED <<model, policy, store>>

\* Schemas of depth one and two, well formed and malformed.
ConstructModels ==
    {<<x>> : x \in AnyLeaf(k_x)}
    \cup {<<x, Group(k_db, <<h>>)>> : x \in AnyLeaf(k_x), h \in AnyLeaf(k_h)}

ConstructSources ==
    UNION {{q \in [1..n -> [name : {"env"}, snap : UNION {ConfigFlatSnapshots(i) : i \in 1..n},
                            own_model : BOOLEAN, injected : {FALSE}, loads : {0}]] :
               \A i \in 1..n : q[i].snap \in ConfigFlatSnapshots(i)} : n \in 0..MaxSources}

InitConstruct ==
    /\ model \in ConstructModels
    /\ sources \in ConstructSources
    /\ policy = NoPolicy
    /\ config_dict = EmptyDict
    /\ outcome = NoOutcome
    /\ store = NoStore

NextConstruct == Construct \/ ConstructedLoad

SpecConstruct == InitConstruct /\ [][NextConstruct]_vars

(***************************************************************************)
(* Config.load_store and the ConfigStore                                   *)
(*                                                                         *)
(* The store is [made, current, subscribers, threads]: current is the      *)
(* configuration get() returns, subscribers the callbacks in registration  *)
(* order, threads the reload() call running in each thread.  A reload()    *)
(* call is [pc, new, diff]: it resolves and builds the new instance        *)
(* ("built"), swaps it in ("swapped"), calls the subscribers and returns.  *)
(* The outcome is what the last call that returned gave back; for a        *)
(* reload() it holds the callbacks made on the way.                        *)
(***************************************************************************)
Threads == {1, 2}
Callbacks == {"a", "b"}

NoConfig == Inst(EmptyDict)
NoDiff == [added |-> {}, modified |-> {}, deleted |-> {}]
IdleThread == [pc |-> "idle", new |-> NoConfig, diff |-> NoDiff]

\* One pass of the store over the resolver of Config.load_store (the
\* defaults source and the user sources, with the policy of the Config):
\* resolve, validate the required keys, map onto an instance of the model;
\* a source whose load() raises fails the pass.
store_build(m, srcs, pol, keyorder, source_raises) ==
    LET cd == load_config_dict(m, srcs, pol, keyorder)
        checked == validate_config(m, cd)
    IN IF source_raises THEN Raised("SourceError")
       ELSE IF checked.kind = "error" THEN Raised(checked.error)
       ELSE dict_to_model(cd, m)

\* A mutant of leaf_items that does not descend into groups.
top_items(items, prefix) == {<<prefix \o items[i][1], items[i][2]>> : i \in 1..Len(items)}

\* The leaves of an instance with their dotted keys: <<key, value>>.
RECURSIVE leaf_items(_, _)
leaf_items(items, prefix) ==
    UNION {IF IsInst(items[i][2]) \/ IsDict(items[i][2])
           THEN leaf_items(items[i][2].val, prefix \o items[i][1] \o <<".">>)
           ELSE {<<prefix \o items[i][1], items[i][2]>>}
           : i \in 1..Len(items)}

\* The diff of two configurations: the leaf keys added, modified, deleted.
compute_diff(old, new) ==
    LET olds == leaf_items(old.val, << >>)
        news == leaf_items(new.val, << >>)
        oldkeys == {it[1] : it \in olds}
        newkeys == {it[1] : it \in news}
    IN [added |-> newkeys \ oldkeys,
        deleted |-> oldkeys \ newkeys,
        modified |-> {k \in oldkeys \cap newkeys :
                         \E a \in olds, b \in news : a[1] = k /\ b[1] = k /\ a[2] # b[2]}]

\* A mutant of reload_failed that drops the current configuration.
reload_failed_drops(st, t) == [st EXCEPT !.current = NoConfig, !.threads[t] = IdleThread]

\* The store after a reload() that failed in thread t: unchanged.
reload_failed(st, t) == [st EXCEPT !.threads[t] = IdleThread]

\* The store after thread t has built the new instance.
reload_built(st, t, new) == [st EXCEPT !.threads[t] = [IdleThread EXCEPT !.pc = "built", !.new = new]]

\* The swap: the diff against the configuration current now, then the pointer.
reload_swapped(st, t) ==
    [st EXCEPT !.current = st.threads[t].new,
               !.threads[t].pc = "swapped",
               !.threads[t].diff = compute_diff(st.current, st.threads[t].new)]

\* A mutant of notifications that calls the subscribers last to first.
notifications_reversed(subscribers, th) ==
    [i \in 1..Len(subscribers) |->
        [cb |-> subscribers[Len(subscribers) + 1 - i], config |-> th.new, diff |-> th.diff]]

\* The callbacks of one reload: every subscriber, in registration order.
notifications(subscribers, th) ==
    [i \in 1..Len(subscribers) |->
        [cb |-> subscribers[i], config |-> th.new, diff |-> th.diff]]

\* Models of the store: x is required without a default or optional with
\* one; db.h is optional, with or without a default.
StoreModels ==
    {<<x, ConfigGroup(k_db, <<h>>)>> :
        x \in ConfigLeaf(k_x),
        h \in {Field(k_h, LeafType("int", FALSE), FALSE, TRUE, d) :
                  d \in {NoDefault, DefaultOf(Int_(0))}}}

\* What the one user source can hold: nothing, x, or x and db.h.
StoreSnapshots ==
    {EmptyDict, <<<<k_x, Int_(1)>>>>, <<<<k_x, Int_(1)>>, <<k_db_h, Int_(1)>>>>}

StoreSources == {<<[name |-> "env", snap |-> sn]>> : sn \in StoreSnapshots}

\* cfg.load_store(): the store with its first configuration, or the error
\* of the first load and no store.
LoadStore ==
    /\ outcome.kind = "none"
    /\ \E source_raises \in BOOLEAN :
          LET first == store_build(model, sources, policy, << >>, source_raises)
          IN IF first.ok
             THEN /\ store' = [made |-> TRUE, current |-> first.val, subscribers |-> << >>,
                               threads |-> [t \in Threads |-> IdleThread]]
                  /\ outcome' = [kind |-> "store"]
             ELSE /\ store' = store
                  /\ outcome' = [kind |-> "error", error |-> first.err]
    /\ UNCHANGED <<model, sources, policy, config_dict>>

\* The environment changes what the source holds.
SourceChanges ==
    /\ store.made
    /\ sources' \in StoreSources \ {sources}
    /\ UNCHANGED <<model, policy, config_dict, outcome, store>>

\* store.get()
GetConfig ==
    /\ store.made
    /\ outcome' = [kind |-> "got", app |-> store.current]
    /\ UNCHANGED <<model, sources, policy, config_dict, store>>

\* store.subscribe(cb)
Subscribe(cb) ==
    /\ store.made
    /\ \A i \in 1..Len(store.subscribers) : store.subscribers[i] # cb
    /\ store' = [store EXCEPT !.subscribers = Append(@, cb)]
    /\ UNCHANGED <<model, sources, policy, config_dict, outcome>>

\* store.reload() in thread t, first part: resolve and build, outside the
\* lock; a failure is raised to the caller at once.
ReloadResolve(t) ==
    /\ store.made
    /\ store.threads[t].pc = "idle"
    /\ \E source_raises \in BOOLEAN :
          LET built == store_build(model, sources, policy, << >>, source_raises)
          IN IF built.ok
             THEN /\ store' = reload_built(store, t, built.val)
                  /\ outcome' = outcome
             ELSE /\ store' = reload_failed(store, t)
                  /\ outcome' = [kind |-> "error", error |-> built.err]
    /\ UNCHANGED <<model, sources, policy, config_dict>>

\* Second part: the swap under the lock.
ReloadSwap(t) ==
    /\ store.made
    /\ store.threads[t].pc = "built"
    /\ store' = reload_swapped(store, t)
    /\ UNCHANGED <<model, sources, policy, config_dict, outcome>>

\* Third part: the callbacks, then reload() returns.
ReloadNotify(t) ==
    /\ store.made
    /\ store.threads[t].pc = "swapped"
    /\ outcome' = [kind |-> "reloaded",
                   calls |-> notifications(store.subscribers, store.threads[t])]
    /\ store' = [store EXCEPT !.threads[t] = IdleThread]
    /\ UNCHANGED <<model, sources, policy, config_dict>>

InitStore ==
    /\ model \in StoreModels
    /\ sources \in StoreSources
    /\ policy = NoPolicy
    /\ config_dict = EmptyDict
    /\ outcome = NoOutcome
    /\ store = NoStore

NextStore ==
    \/ LoadStore
    \/ SourceChanges
    \/ GetConfig
    \/ \E cb \in Callbacks : Subscribe(cb)
    \/ \E t \in Threads : ReloadResolve(t)
    \/ \E t \in Threads : ReloadSwap(t)
    \/ \E t \in Threads : ReloadNotify(t)

SpecStore == InitStore /\ [][NextStore]_vars

(***************************************************************************)
(* The Defaults source: Defaults.__init__ and Defaults.load                *)
(***************************************************************************)
\* A model argument that is no dataclass (a plain type).
NotADataclass ==
    <<Field(<<"i", "n", "t">>,
            [kind |-> "builtin", py |-> "int", nullable |-> FALSE, fields |-> << >>],
            FALSE, FALSE, NoDefault)>>

is_dataclass(m) == ~(Len(m) = 1 /\ m[1].type.kind = "builtin")

\* "__" in name
HasDunder(name) == \E i \in 1..(Len(name) - 1) : name[i] = "_" /\ name[i + 1] = "_"

\* Inspection of the field names: the declared names with "__" in
\* declaration order, depth first (the inspection fails on the first one).
RECURSIVE dunder_field_names(_)
dunder_field_names(fields) ==
    IF fields = << >> THEN << >>
    ELSE (IF HasDunder(Head(fields).name) THEN <<Head(fields).name>> ELSE << >>)
         \o (IF IsGroup(Head(fields)) THEN dunder_field_names(Head(fields).type.fields)
             ELSE << >>)
         \o dunder_field_names(Tail(fields))

\* Defaults.load without precomputed defaults: inspect the model, keep the
\* defaults of the catalogue.
defaults_load(m) ==
    IF dunder_field_names(m) # << >>
    THEN [kind |-> "error", error |-> "ValueError", model |-> "Config",
          field_name |-> dunder_field_names(m)[1]]
    ELSE [kind |-> "snapshot",
          snap |-> extract_model_defaults(get_all_fields_info(m, << >>))]

k_d__h == <<"d", "_", "_", "h">>
k_a_b == <<"a", "_", "b">>
k_a___b == <<"a", "_", "_", "_", "b">>

DefaultsLeaf(names) ==
    {Field(n, LeafType("str", FALSE), FALSE, TRUE, d) :
        n \in names, d \in {NoDefault, DefaultOf(Int_(0))}}

DefaultsModels ==
    {<<x>> : x \in DefaultsLeaf({k_h, k_d__h, k_a_b, k_a___b})}
    \cup {<<x, y>> : x \in DefaultsLeaf({k_h, k_d__h, k_x}), y \in DefaultsLeaf({k_a_b, k_a___b})}
    \cup {<<x, Group(k_db, <<y>>)>> :
              x \in DefaultsLeaf({k_x}), y \in DefaultsLeaf({k_h, k_d__h, k_a_b})}
    \cup {NotADataclass}

\* Defaults(model=model)
DefaultsInit ==
    /\ outcome.kind = "none"
    /\ outcome' = IF ~is_dataclass(model)
                  THEN [kind |-> "error", error |-> "TypeError"]
                  ELSE [kind |-> "constructed", name |-> "defaults"]
    /\ UNCHANGED <<model, sources, policy, config_dict, store>>

\* source.load() on the constructed source
DefaultsLoad ==
    /\ outcome.kind = "constructed"
    /\ outcome' = defaults_load(model)
    /\ UNCHANGED <<model, sources, policy, config_dict, store>>

InitDefaults ==
    /\ model \in DefaultsModels
    /\ sources = << >>
    /\ policy = NoPolicy
    /\ config_dict = EmptyDict
    /\ outcome = NoOutcome
    /\ store = NoStore

NextDefaults == DefaultsInit \/ DefaultsLoad

SpecDefaults == InitDefaults /\ [][NextDefaults]_vars

(***************************************************************************)
(* Properties of the resolver and the priority policy                      *)
(***************************************************************************)
SetMax(S) == CHOOSE i \in S : \A j \in S : j <= i
SetMin(S) == CHOOSE i \in S : \A j \in S : i <= j

\* A dict as the set of its <<key, value>> pairs (dict equality ignores order).
AsSet(d) == {d[i] : i \in 1..Len(d)}

Resolved == outcome.kind = "resolved"

AllSnapshotKeys(srcs) == UNION {KeysOf(srcs[i].snap) : i \in 1..Len(srcs)}

\* The positions of the sources whose snapshot contains k.
SuppliersOf(srcs, k) == {i \in 1..Len(srcs) : Has(srcs[i].snap, k)}

\* C1: with no policy, resolve() returns for every key the value of the last
\* source in list order whose snapshot contains the key (when that value is
\* not a map), the result has exactly the keys of the snapshots, and for two
\* sources that both supply a key the swapped list returns the other value.
C1_LastSourceWins ==
    (Resolved /\ ~policy.has) =>
        /\ KeysOf(outcome.map) = AllSnapshotKeys(sources)
        /\ \A k \in AllSnapshotKeys(sources) :
              LET v == Get(sources[SetMax(SuppliersOf(sources, k))].snap, k)
              IN ~IsDict(v) => Get(outcome.map, k) = v
        /\ \A k \in AllSnapshotKeys(sources) :
              (/\ Len(sources) = 2
               /\ SuppliersOf(sources, k) = {1, 2}
               /\ ~IsDict(Get(sources[1].snap, k))) =>
                  Get(resolve_in_order(<<sources[2], sources[1]>>, EmptyDict), k)
                      = Get(sources[1].snap, k)

C1_Witness ==
    /\ Resolved
    /\ ~policy.has
    /\ Len(sources) = 2
    /\ Has(sources[1].snap, k_x)
    /\ Has(sources[2].snap, k_x)
    /\ Get(sources[1].snap, k_x) # Get(sources[2].snap, k_x)
    /\ Get(outcome.map, k_x) = Get(sources[2].snap, k_x)

\* Glob matching as the policy documents it: the whole key must match, a
\* character matches itself and "*" matches any run of characters.
RECURSIVE GlobMatches(_, _)
GlobMatches(pattern, key) ==
    IF pattern = << >> THEN key = << >>
    ELSE IF Head(pattern) = "*"
         THEN \E i \in 0..Len(key) :
                 GlobMatches(Tail(pattern), SubSeq(key, i + 1, Len(key)))
    ELSE /\ Len(key) > 0
         /\ key[1] = Head(pattern)
         /\ GlobMatches(Tail(pattern), Tail(key))

HasNamed(srcs, n) == \E i \in 1..Len(srcs) : srcs[i].name = n

\* The snapshot the name n stands for: that of the last source named n.
NamedSnap(srcs, n) == srcs[SetMax({i \in 1..Len(srcs) : srcs[i].name = n})].snap

\* The positions in the order list whose name has a source that supplies k.
NamedSuppliers(srcs, order, k) ==
    {j \in 1..Len(order) : HasNamed(srcs, order[j]) /\ Has(NamedSnap(srcs, order[j]), k)}

\* result holds for k what the last supplying name of the order list holds,
\* and does not hold k when no name of the order list supplies it.
AgreesWithOrder(srcs, order, k, result) ==
    LET S == NamedSuppliers(srcs, order, k)
    IN IF S = {} THEN ~Has(result, k)
       ELSE /\ Has(result, k)
            /\ Get(result, k) = Get(NamedSnap(srcs, order[SetMax(S)]), k)

\* C3: an override applies exactly to the keys its glob pattern matches (a
\* pattern without "*" matches only the identical key); every other key is
\* resolved by the default order.
C3_OverrideExactlyOnMatch ==
    (Resolved /\ policy.has /\ Len(policy.overrides) = 1) =>
        \A k \in AllSnapshotKeys(sources) :
            AgreesWithOrder(sources,
                            IF GlobMatches(policy.overrides[1][1], k)
                            THEN policy.overrides[1][2]
                            ELSE policy.default,
                            k, outcome.map)

DistinctNames(srcs) ==
    \A i, j \in 1..Len(srcs) : srcs[i].name = srcs[j].name => i = j

Reversed(q) == [i \in 1..Len(q) |-> q[Len(q) + 1 - i]]

MatchingOverrides(pol, key) ==
    {i \in 1..Len(pol.overrides) : PatternMatches(pol.overrides[i][1], key)}

\* C5 as stated: get_priority returns the order list of a longest matching
\* pattern, and the default order only when no pattern matches.
C5_LongestPatternWins ==
    outcome.kind = "priority" =>
        LET M == MatchingOverrides(policy, outcome.key)
        IN IF M = {} THEN outcome.order = policy.default
           ELSE \E i \in M :
                   /\ \A j \in M : Len(policy.overrides[j][1]) <= Len(policy.overrides[i][1])
                   /\ outcome.order = policy.overrides[i][2]

\* C5 amended: get_priority returns the order list of the matching pattern
\* declared first, and the default order only when no pattern matches.
C5_FirstDeclaredPatternWins ==
    outcome.kind = "priority" =>
        LET M == MatchingOverrides(policy, outcome.key)
        IN IF M = {} THEN outcome.order = policy.default
           ELSE outcome.order = policy.overrides[SetMin(M)][2]

C5_Witness ==
    /\ outcome.kind = "priority"
    /\ Cardinality(MatchingOverrides(policy, outcome.key)) = 2
    /\ policy.overrides[1][2] # policy.overrides[2][2]
    /\ outcome.order = policy.overrides[1][2]

\* The policy without the names that no supplied source bears.
StripOrder(order, srcs) == SelectSeq(order, LAMBDA n : HasNamed(srcs, n))

Stripped(pol, srcs) ==
    Policy(StripOrder(pol.default, srcs),
           [i \in 1..Len(pol.overrides) |->
               <<pol.overrides[i][1], StripOrder(pol.overrides[i][2], srcs)>>])

NamesNoSource(pol, srcs) ==
    {n \in PolicyNames :
        /\ ~HasNamed(srcs, n)
        /\ \/ \E j \in 1..Len(pol.default) : pol.default[j] = n
           \/ \E i \in 1..Len(pol.overrides) :
                 \E j \in 1..Len(pol.overrides[i][2]) : pol.overrides[i][2][j] = n}

\* C6: resolve() with a policy that names sources that were not supplied
\* raises nothing and returns the map it returns for the policy with those
\* names removed.
C6_UnknownNameSkipped ==
    (outcome.kind # "none" /\ policy.has /\ model = NoModel) =>
        /\ Resolved
        /\ \A keyorder \in OrderingsOf(all_keys(load_all(sources, EmptyDict))) :
              AsSet(resolve_with_policy(sources, Stripped(policy, sources), keyorder))
                  = AsSet(outcome.map)

C6_Witness ==
    /\ Resolved
    /\ policy.has
    /\ policy.default = <<"etcd", "env">>
    /\ "etcd" \in NamesNoSource(policy, sources)
    /\ \E i \in 1..Len(sources) : sources[i].name = "env" /\ Has(sources[i].snap, k_p)
    /\ Has(outcome.map, k_p)

(***************************************************************************)
(* Properties of the validators                                            *)
(***************************************************************************)
\* The leaf fields of a model at every depth, with their dotted keys.
RECURSIVE LeafFields(_, _)
LeafFields(fields, prefix) ==
    UNION {IF IsGroup(fields[i])
           THEN LeafFields(fields[i].type.fields, prefix \o fields[i].name \o <<".">>)
           ELSE {[key |-> prefix \o fields[i].name, field |-> fields[i]]}
           : i \in 1..Len(fields)}

RequiredKeys(m) == {l.key : l \in {l \in LeafFields(m, << >>) : l.field.required}}

Range(q) == {q[i] : i \in 1..Len(q)}

\* C8: validate_config raises RequiredFieldError exactly when a required
\* descriptor's key is not a key of the value map, whatever the values of
\* the keys present, and the error lists every such key once.
C8_RequiredKeysPresent ==
    (outcome.kind # "none" /\ model \in ValidModels) =>
        LET missing == {k \in RequiredKeys(model) : ~Has(config_dict, k)}
        IN /\ (outcome.kind = "error") <=> (missing # {})
           /\ outcome.kind = "error" =>
                 /\ outcome.error = "RequiredFieldError"
                 /\ Range(outcome.missing_fields) = missing
                 /\ Len(outcome.missing_fields) = Cardinality(missing)

C8_Witness ==
    /\ outcome.kind = "error"
    /\ outcome.error = "RequiredFieldError"
    /\ Len(outcome.missing_fields) = 2
    /\ \E k \in RequiredKeys(model) : Has(config_dict, k) /\ Get(config_dict, k) = NoneV

ExactlyOne(f) == f.required # f.optional

C10_NullableRejectedAtAnyDepth ==
    (outcome.kind # "none" /\ model \in DefinitionModels) =>
        \A l \in LeafFields(model, << >>) :
            (/\ l.field.type.nullable
             /\ \A o \in LeafFields(model, << >>) \ {l} :
                   ExactlyOne(o.field) /\ ~o.field.type.nullable) =>
                /\ outcome.kind = "error"
                /\ outcome.error = "ModelDefinitionError"
                /\ outcome.reason = "optional_type"

(***************************************************************************)
(* Properties of Config.load                                               *)
(***************************************************************************)
\* A user source supplies the key: flat, or inside the nested map of a group.
SuppliesKey(snap, key) ==
    \/ Has(snap, key)
    \/ /\ HasDot(key)
       /\ Has(snap, SplitFirstDot(key)[1])
       /\ IsDict(Get(snap, SplitFirstDot(key)[1]))
       /\ Has(Get(snap, SplitFirstDot(key)[1]).val, SplitFirstDot(key)[2])

DefaultedInfos(m) ==
    {info \in Range(get_all_fields_info(m, << >>)) : info.default.has}

\* C2: after a load, with or without a policy, every schema field with a
\* declared default that no user source supplies is in the value map with
\* that default.
C2_DefaultIsBaseLayer ==
    (outcome.kind # "none" /\ model \in ConfigModels) =>
        \A info \in DefaultedInfos(model) :
            (\A i \in 1..Len(sources) : ~SuppliesKey(sources[i].snap, info.normalized_key)) =>
                /\ Has(config_dict, info.normalized_key)
                /\ Get(config_dict, info.normalized_key) = info.default.val

\* The first of two sources supplies db as the nested map {h, po}; the
\* second one overrides h only, as the nested map {db: {h}} or as "db.h".
SubsetOverride ==
    /\ Len(sources) = 2
    /\ Has(sources[1].snap, k_db)
    /\ Get(sources[1].snap, k_db) = Dict(<<<<k_h, Int_(1)>>, <<k_port, Int_(1)>>>>)
    /\ ~Has(sources[1].snap, k_db_h)
    /\ \/ /\ Has(sources[2].snap, k_db)
          /\ Get(sources[2].snap, k_db) = Dict(<<<<k_h, Int_(2)>>>>)
          /\ ~Has(sources[2].snap, k_db_h)
       \/ /\ ~Has(sources[2].snap, k_db)
          /\ Has(sources[2].snap, k_db_h)

\* C7: when an earlier source supplies db = {h, po} as a nested map and a
\* later source overrides only h, the loaded configuration has db.h of the
\* later source and db.po of the earlier one.
C7_SiblingFieldsKept ==
    (outcome.kind = "loaded" /\ model \in ConfigModels /\ SubsetOverride) =>
        /\ IsInst(Get(outcome.app.val, k_db))
        /\ Get(Get(outcome.app.val, k_db).val, k_h) = Int_(2)
        /\ Get(Get(outcome.app.val, k_db).val, k_port) = Int_(1)

(***************************************************************************)
(* Properties of the order of schema-definition errors                     *)
(***************************************************************************)
\* The leaf fields in declaration order, depth first, with their dotted keys.
RECURSIVE LeafSeq(_, _)
LeafSeq(fields, prefix) ==
    IF fields = << >> THEN << >>
    ELSE (IF IsGroup(Head(fields))
          THEN LeafSeq(Head(fields).type.fields, prefix \o Head(fields).name \o <<".">>)
          ELSE <<[key |-> prefix \o Head(fields).name, field |-> Head(fields)]>>)
         \o LeafSeq(Tail(fields), prefix)

InvalidField(f) == f.type.nullable \/ ~ExactlyOne(f)

OwnReason(f) ==
    IF f.type.nullable THEN "optional_type"
    ELSE IF f.required /\ f.optional THEN "conflicting_metadata"
    ELSE "missing_metadata"

\* Every nullable-typed field of the schema is a top-level field.
NullableOnlyAtTop(m) ==
    \A l \in LeafFields(m, << >>) :
        l.field.type.nullable => \E i \in 1..Len(m) : m[i] = l.field /\ l.key = m[i].name

FirstInvalid(m) ==
    LET leaves == LeafSeq(m, << >>)
    IN leaves[SetMin({i \in 1..Len(leaves) : InvalidField(leaves[i].field)})]

\* C11: for a schema with invalid fields, validate_model_definition reports
\* the first invalid field in catalogue order with that field's own reason
\* code, whatever the later fields are (stated for schemas whose nullable
\* types are all at the top level).
C11_FirstInvalidInCatalogueOrder ==
    (/\ outcome.kind # "none"
     /\ model \in DefinitionModels
     /\ NullableOnlyAtTop(model)
     /\ \E l \in LeafFields(model, << >>) : InvalidField(l.field)) =>
        /\ outcome.kind = "error"
        /\ outcome.error = "ModelDefinitionError"
        /\ outcome.field_name = FirstInvalid(model).key
        /\ outcome.reason = OwnReason(FirstInvalid(model).field)

\* The same statement for schemas without a nullable type: the metadata
\* loop alone follows the catalogue order.
MetadataOrderFollowsCatalogue ==
    (\A l \in LeafFields(model, << >>) : ~l.field.type.nullable) =>
        C11_FirstInvalidInCatalogueOrder

(***************************************************************************)
(* Properties of normalize_key                                             *)
(***************************************************************************)
CasePairs ==
    {<<"A", "a">>, <<"B", "b">>, <<"D", "d">>, <<"H", "h">>, <<"O", "o">>, <<"P", "p">>,
     <<"S", "s">>, <<"T", "t">>}

Lowered(key) ==
    [i \in 1..Len(key) |->
        IF \E pr \in CasePairs : pr[1] = key[i]
        THEN (CHOOSE pr \in CasePairs : pr[1] = key[i])[2]
        ELSE key[i]]

\* The length of the run of underscores at the head of key.
HeadRun(key) ==
    SetMax({n \in 0..Len(key) : \A i \in 1..n : key[i] = "_"})

\* A maximal run of n underscores becomes n \div 2 dots, followed by one
\* underscore when n is odd; every other character stays.
RECURSIVE ByRuns(_)
ByRuns(key) ==
    IF key = << >> THEN << >>
    ELSE IF key[1] # "_" THEN <<key[1]>> \o ByRuns(Tail(key))
    ELSE LET n == HeadRun(key)
         IN [i \in 1..(n \div 2) |-> "."]
            \o (IF n % 2 = 1 THEN <<"_">> ELSE << >>)
            \o ByRuns(SubSeq(key, n + 1, Len(key)))

C19_NormalizeIdempotent ==
    outcome.kind = "renormalized" =>
        /\ outcome.key = outcome.first
        /\ \A i \in 1..Len(outcome.first) :
              /\ \A pr \in CasePairs : outcome.first[i] # pr[1]
              /\ i < Len(outcome.first) =>
                    ~(outcome.first[i] = "_" /\ outcome.first[i + 1] = "_")

C19_Witness ==
    /\ outcome.kind = "renormalized"
    /\ outcome.raw = <<"A", "_", "_", "_", "_">>
    /\ outcome.key = <<"a", ".", ".">>

(***************************************************************************)
(* Properties of the mapper                                                *)
(***************************************************************************)
\* The dotted entries of the group g in the value map, as <<field, value>>.
GroupEntries(cd, g) ==
    {<<SplitFirstDot(cd[i][1])[2], cd[i][2]>> :
        i \in {j \in 1..Len(cd) : HasDot(cd[j][1]) /\ SplitFirstDot(cd[j][1])[1] = g}}

\* The value map gives every field of the model that has no default.
Complete(m, cd) ==
    \A l \in LeafFields(m, << >>) : ~l.field.default.has => Has(cd, l.key)

\* C20: for the group db and every set of dotted entries db.x1 ... db.xn in
\* the value map, in any order, the db instance of the mapped tree carries
\* all n values, and the mapping succeeds when no field without a default is
\* left out.
C20_DottedEntriesAccumulate ==
    (outcome.kind # "none" /\ model \in MapperModels) =>
        /\ (Complete(model, config_dict) /\ GroupEntries(config_dict, k_db) # {}) =>
              outcome.kind = "mapped"
        /\ outcome.kind = "mapped" =>
              /\ IsInst(Get(outcome.app.val, k_db))
              /\ \A en \in GroupEntries(config_dict, k_db) :
                    Get(Get(outcome.app.val, k_db).val, en[1]) = en[2]

C20_Witness ==
    /\ outcome.kind = "mapped"
    /\ model \in MapperModels
    /\ Cardinality(GroupEntries(config_dict, k_db)) = 3
    /\ config_dict[1][1] = k_db \o <<".">> \o k_e
    /\ \A l \in LeafFields(model, << >>) : l.key # k_x => ~l.field.default.has

(***************************************************************************)
(* Properties of the Defaults source                                       *)
(***************************************************************************)
\* C12: constructing a Defaults source for a schema with a field whose
\* declared name contains "__" raises an error that names the model and the
\* field, so no source and no snapshot exist for such a schema.
C12_DunderNameRejected ==
    (outcome.kind # "none" /\ model \in DefaultsModels /\ is_dataclass(model)
     /\ dunder_field_names(model) # << >>) =>
        /\ outcome.kind = "error"
        /\ outcome.error = "ValueError"
        /\ outcome.field_name = dunder_field_names(model)[1]

\* The part of C12 that rests on the inspection at load time: no snapshot is
\* produced for such a schema.
NoSnapshotForDunderName ==
    (model \in DefaultsModels /\ is_dataclass(model) /\ dunder_field_names(model) # << >>) =>
        outcome.kind # "snapshot"

(***************************************************************************)
(* Properties of Config.__init__                                           *)
(***************************************************************************)
Malformed(m) == \E l \in LeafFields(m, << >>) : InvalidField(l.field)

SourcesUntouched == \A i \in 1..Len(sources) : ~sources[i].injected /\ sources[i].loads = 0

\* C13: for a malformed schema, Config construction raises the Model
\* Definition Error before any source is loaded or modified by the model
\* injection, and no configuration is created.
C13_MalformedSchemaStopsConstruction ==
    (outcome.kind # "none" /\ model \in ConstructModels /\ Malformed(model)) =>
        /\ outcome.kind = "error"
        /\ outcome.error = "ModelDefinitionError"
        /\ SourcesUntouched

\* When the Model Definition Error is raised, no source has been touched.
ErrorBeforeSourcesTouched ==
    (model \in ConstructModels /\ outcome.kind = "error"
     /\ outcome.error = "ModelDefinitionError") => SourcesUntouched

(***************************************************************************)
(* Properties of the ConfigStore                                           *)
(***************************************************************************)
BuildErrors == {"SourceError", "RequiredFieldError", "TypeError"}

\* The step of thread t is a reload() that raised.
ReloadRaises(t) ==
    /\ store.made
    /\ store.threads[t].pc = "idle"
    /\ store'.threads[t].pc = "idle"
    /\ outcome'.kind = "error"
    /\ ReloadResolve(t)

\* The step of thread t is a reload() that built its new instance.
ReloadBuilds(t) ==
    /\ store.made
    /\ store.threads[t].pc = "idle"
    /\ store'.threads[t].pc = "built"

\* C14: when the resolution, the check of the required fields or the
\* construction of the new instance fails during reload(), the error goes to
\* the caller of reload() and the configuration get() returns is the one that
\* was current before the call; a reload whose pass fails never builds.
C14_FailedReloadKeepsCurrent ==
    [][\A t \in Threads :
          /\ ReloadRaises(t) =>
                /\ outcome'.error \in BuildErrors
                /\ store'.current = store.current
                /\ store'.subscribers = store.subscribers
          /\ ReloadBuilds(t) => store_build(model, sources, policy, << >>, FALSE).ok]_vars

\* A reload failed on a missing required field while a configuration with
\* x = 1 was current, and that configuration is still current.
C14_Witness ==
    /\ store.made
    /\ outcome.kind = "error"
    /\ outcome.error = "RequiredFieldError"
    /\ Has(store.current.val, k_x)
    /\ Get(store.current.val, k_x) = Int_(1)
    /\ ~store_build(model, sources, policy, << >>, FALSE).ok

\* The instance has every field of the schema, and every group of it is an
\* instance that does.
RECURSIVE FullyBuilt(_, _)
FullyBuilt(fields, inst) ==
    /\ IsInst(inst)
    /\ Len(inst.val) = Len(fields)
    /\ \A i \in 1..Len(fields) :
          /\ Has(inst.val, fields[i].name)
          /\ IF fields[i].type.kind = "group"
             THEN FullyBuilt(fields[i].type.fields, Get(inst.val, fields[i].name))
             ELSE ~IsInst(Get(inst.val, fields[i].name)) /\ ~IsDict(Get(inst.val, fields[i].name))

\* The step of thread t is the swap of its reload().
ReloadSwaps(t) ==
    /\ store.made
    /\ store.threads[t].pc = "built"
    /\ store'.threads[t].pc = "swapped"

\* C15: under every interleaving of get() with the reload() calls of the
\* threads, get() returns the configuration current at that moment, which is
\* the first one or the one a swap installed, fully built; the current
\* configuration changes only in the swap step of a reload, to the instance
\* that reload had finished building.
C15_AtomicSwap ==
    [][store.made =>
          /\ FullyBuilt(model, store.current)
          /\ FullyBuilt(model, store'.current)
          /\ (outcome'.kind = "got" /\ outcome' # outcome) =>
                outcome'.app = store.current
          /\ store'.current # store.current =>
                \E t \in Threads :
                    /\ ReloadSwaps(t)
                    /\ store'.current = store.threads[t].new
                    /\ \A u \in Threads \ {t} : store'.threads[u] = store.threads[u]]_vars

\* One thread has swapped in x = 1 with the default of db.h while the other
\* still holds the instance it built from an older source, and get() has
\* returned the first configuration.
C15_Witness ==
    /\ store.made
    /\ store.threads[1].pc = "swapped"
    /\ store.threads[2].pc = "built"
    /\ store.threads[2].new # store.current
    /\ store.threads[1].new = store.current
    /\ outcome.kind = "got"
    /\ outcome.app # store.current

\* The step of thread t is the return of a reload() that succeeded.
ReloadReturns(t) ==
    /\ store.made
    /\ store.threads[t].pc = "swapped"
    /\ store'.threads[t].pc = "idle"

\* C16: a reload() that succeeded has, when it returns, called every
\* subscriber registered by then exactly once, in registration order, with
\* the configuration it built and its diff; no other step calls a
\* subscriber: not a reload that raised, not a reload that returned before
\* the subscription.
C16_SubscribersCalledInOrder ==
    [][/\ \A t \in Threads :
             ReloadReturns(t) =>
                /\ outcome'.kind = "reloaded"
                /\ Len(outcome'.calls) = Len(store.subscribers)
                /\ \A i \in 1..Len(store.subscribers) :
                      /\ outcome'.calls[i].cb = store.subscribers[i]
                      /\ outcome'.calls[i].config = store.threads[t].new
                      /\ outcome'.calls[i].diff = store.threads[t].diff
                /\ \A i, j \in 1..Len(store.subscribers) :
                      store.subscribers[i] = store.subscribers[j] => i = j
       /\ (outcome'.kind = "reloaded" /\ outcome' # outcome) =>
             \E t \in Threads : ReloadReturns(t)
       /\ \A t \in Threads : ReloadRaises(t) => outcome'.kind = "error"]_vars

\* A reload returned after calling b and then a, registered in that order,
\* with a configuration whose x changed.
C16_Witness ==
    /\ store.made
    /\ outcome.kind = "reloaded"
    /\ Len(outcome.calls) = 2
    /\ outcome.calls[1].cb = "b"
    /\ outcome.calls[2].cb = "a"
    /\ outcome.calls[1].diff.modified = {k_x}
    /\ store.subscribers = <<"b", "a">>

\* The value of the leaf with the dotted key in a fully built instance.
RECURSIVE ValueAt(_, _)
ValueAt(inst, key) ==
    IF HasDot(key)
    THEN ValueAt(Get(inst.val, SplitFirstDot(key)[1]), SplitFirstDot(key)[2])
    ELSE Get(inst.val, key)

\* The leaf keys of the schema whose values differ in the two instances.
ChangedLeaves(m, old, new) ==
    {l.key : l \in {l \in LeafFields(m, << >>) : ValueAt(old, l.key) # ValueAt(new, l.key)}}

\* C17: the diff a reload() computes at its swap has in modified exactly the
\* keys of the leaf fields whose values differ between the configuration
\* current until then and the new one (so exactly the one key when one leaf
\* differs), leaves of nested groups under their dotted keys, and nothing in
\* added and deleted; a leaf with equal values is not in the diff.
C17_DiffOfOneLeaf ==
    [][\A t \in Threads :
          ReloadSwaps(t) =>
             LET diff == store'.threads[t].diff
                 changed == ChangedLeaves(model, store.current, store.threads[t].new)
             IN /\ diff.modified = changed
                /\ diff.added = {}
                /\ diff.deleted = {}]_vars

\* A reload swapped in a configuration that differs from the one before in
\* db.h alone: x is 1 in it as it was, and the diff names db.h only.
C17_Witness ==
    /\ store.made
    /\ \E t \in Threads :
          /\ store.threads[t].pc = "swapped"
          /\ store.threads[t].diff.modified = {k_db_h}
          /\ ValueAt(store.threads[t].new, k_x) = Int_(1)
          /\ ValueAt(store.threads[t].new, k_db_h) = Int_(1)

(***************************************************************************)
(* Coercion in the mapper                                                  *)
(***************************************************************************)
\* Models with an int leaf x and a group db with an int leaf h.
CoerceModels ==
    {<<x, Field(k_db, GroupType(<<h>>), TRUE, FALSE, NoDefault)>> :
        x \in MapperLeaf(k_x), h \in MapperLeaf(k_h)}

\* Raw values: an int, a numeric string, a string that is no number.
RawValues == {Int_(1), Str("2"), Str("ab")}

\* Value maps: x or not; db.h as a dotted entry, or db as a map, or neither;
\* in either order.
CoerceDicts ==
    {a \o b : a \in {EmptyDict} \cup {<<<<k_x, v>>>> : v \in RawValues},
              b \in {EmptyDict} \cup {<<<<k_db_h, v>>>> : v \in RawValues}
                                \cup {<<<<k_db, Dict(<<<<k_h, v>>>>)>>>> : v \in RawValues}}
    \cup
    {b \o a : a \in {<<<<k_x, v>>>> : v \in RawValues},
              b \in {<<<<k_db_h, v>>>> : v \in RawValues}
                    \cup {<<<<k_db, Dict(<<<<k_h, v>>>>)>>>> : v \in RawValues}}

InitCoerce ==
    /\ model \in CoerceModels
    /\ sources = << >>
    /\ policy = NoPolicy
    /\ config_dict \in CoerceDicts
    /\ outcome = NoOutcome
    /\ store = NoStore

NextCoerce == MapDict

SpecCoerce == InitCoerce /\ [][NextCoerce]_vars

\* The raw value the value map gives for x or for db.h, if any.
HasRaw(cd, key) ==
    IF key = k_db_h
    THEN Has(cd, k_db_h) \/ (Has(cd, k_db) /\ Has(Get(cd, k_db).val, k_h))
    ELSE Has(cd, key)
RawOf(cd, key) ==
    IF key = k_db_h /\ ~Has(cd, k_db_h) THEN Get(Get(cd, k_db).val, k_h) ELSE Get(cd, key)

\* C21: when the conversion of a raw value to the declared type of its field
\* fails, the mapper puts the raw value itself under the field and raises
\* nothing; a value that converts is put converted; the only error of the
\* mapping is the constructor's, for a field or the group left without a
\* value.
C21_FailedCoercionKeepsRaw ==
    (outcome.kind # "none" /\ model \in CoerceModels) =>
        /\ outcome.kind = "error" =>
              /\ outcome.error = "TypeError"
              /\ \/ \E l \in LeafFields(model, << >>) :
                       ~l.field.default.has /\ ~HasRaw(config_dict, l.key)
                 \/ ~Has(config_dict, k_db_h) /\ ~Has(config_dict, k_db)
        /\ outcome.kind = "mapped" =>
              \A l \in LeafFields(model, << >>) :
                  HasRaw(config_dict, l.key) =>
                      LET raw == RawOf(config_dict, l.key)
                          c == convert_value(raw, l.field.type)
                      IN ValueAt(outcome.app, l.key) = IF c.ok THEN c.val ELSE raw

\* Both x and db.h were given a string that is no number, and the instance
\* carries the two strings.
C21_Witness ==
    /\ model \in CoerceModels
    /\ outcome.kind = "mapped"
    /\ ~convert_value(Str("ab"), LeafType("int", FALSE)).ok
    /\ ValueAt(outcome.app, k_x) = Str("ab")
    /\ ValueAt(outcome.app, k_db_h) = Str("ab")
    /\ Has(config_dict, k_db_h)

(***************************************************************************)
(* Mapping an instance again                                               *)
(***************************************************************************)
k_db_c_e == k_db \o <<".">> \o k_c \o <<".">> \o k_e

\* Models three levels deep: x, db.h and db.c.e, int leaves.
DeepModels ==
    {<<x, ConfigGroup(k_db, <<h, ConfigGroup(k_c, <<e>>)>>)>> :
        x \in MapperLeaf(k_x), h \in MapperLeaf(k_h), e \in MapperLeaf(k_e)}

\* Value maps over x, db.h and db.c.e.
DeepDicts ==
    {a \o b \o c :
        a \in {EmptyDict} \cup {<<<<k_x, v>>>> : v \in RawValues},
        b \in {EmptyDict} \cup {<<<<k_db_h, v>>>> : v \in RawValues},
        c \in {EmptyDict} \cup {<<<<k_db_c_e, v>>>> : v \in RawValues}}

\* The ways to give a group value back: the instance, its asdict, or a map
\* of its fields whose own groups stay instances.
RenestForms == {"inst", "plain", "shallow"}

as_value_map(app, form) ==
    [i \in 1..Len(app.val) |->
        <<app.val[i][1],
          IF ~IsInst(app.val[i][2]) \/ form = "inst" THEN app.val[i][2]
          ELSE IF form = "plain" THEN asdict(app.val[i][2])
          ELSE Dict(app.val[i][2].val)>>]

\* Config._dict_to_model over the value map of the instance mapped before,
\* any number of times.
Renest(form) ==
    /\ outcome.kind \in {"mapped", "renested"}
    /\ LET instance == dict_to_model(as_value_map(outcome.app, form), model)
       IN outcome' = IF instance.ok
                     THEN [kind |-> "renested", form |-> form, first |-> outcome.app,
                           app |-> instance.val]
                     ELSE [kind |-> "error", error |-> instance.err, form |-> form,
                           first |-> outcome.app]
    /\ UNCHANGED <<model, sources, policy, config_dict, store>>

InitRenest ==
    /\ model \in DeepModels
    /\ sources = << >>
    /\ policy = NoPolicy
    /\ config_dict \in DeepDicts
    /\ outcome = NoOutcome
    /\ store = NoStore

NextRenest ==
    \/ MapDict
    \/ \E form \in RenestForms : Renest(form)

SpecRenest == InitRenest /\ [][NextRenest]_vars

\* C22: an instance the mapper built, given back as a value map with its
\* groups as instances or as plain maps, is mapped to an instance with the
\* same value in every leaf.
C22_RenestRoundTrip ==
    (model \in DeepModels /\ outcome.kind \in {"renested", "error"} /\ "first" \in DOMAIN outcome) =>
        /\ outcome.kind = "renested"
        /\ FullyBuilt(model, outcome.app)
        /\ \A l \in LeafFields(model, << >>) :
              ValueAt(outcome.app, l.key) = ValueAt(outcome.first, l.key)

\* An instance with a converted value, a raw string and a value three levels
\* down was given back with db as a plain map and mapped again.
C22_Witness ==
    /\ model \in DeepModels
    /\ outcome.kind = "renested"
    /\ outcome.form = "plain"
    /\ ValueAt(outcome.first, k_x) = Int_(2)
    /\ ValueAt(outcome.first, k_db_h) = Str("ab")
    /\ ValueAt(outcome.first, k_db_c_e) = Int_(1)
    /\ Has(config_dict, k_db_c_e)

(***************************************************************************)
(* Dotted entries of an inner group                                        *)
(***************************************************************************)
k_f == <<"f">>
k_db_c_f == k_db \o <<".">> \o k_c \o <<".">> \o k_f

\* Models three levels deep whose inner group has two leaves: db.h, db.c.e
\* and db.c.f.
InnerModels ==
    {<<ConfigGroup(k_db, <<h, ConfigGroup(k_c, <<e, f>>)>>)>> :
        h \in MapperLeaf(k_h), e \in MapperLeaf(k_e), f \in MapperLeaf(k_f)}

\* Value maps: dotted entries of db.h, db.c.e and db.c.f in any order, each
\* with the position of its entry as value.
InnerDicts ==
    {[i \in 1..Len(q) |-> <<q[i], Int_(i)>>] :
        q \in UNION {OrderingsOf(ks) : ks \in SUBSET {k_db_h, k_db_c_e, k_db_c_f}}}

InitInner ==
    /\ model \in InnerModels
    /\ sources = << >>
    /\ policy = NoPolicy
    /\ config_dict \in InnerDicts
    /\ outcome = NoOutcome
    /\ store = NoStore

NextInner == MapDict

SpecInner == InitInner /\ [][NextInner]_vars

\* C23: when the value map holds all the leaves of the inner group db.c as
\* dotted entries (and db.h, unless it has a default), the mapping succeeds
\* whether or not the fields of db.c have defaults, and the instance of db.c
\* carries the values of the entries.
C23_InnerGroupFromAllEntries ==
    (outcome.kind # "none" /\ model \in InnerModels) =>
        ((/\ Has(config_dict, k_db_c_e)
          /\ Has(config_dict, k_db_c_f)
          /\ \A l \in LeafFields(model, << >>) :
                ~l.field.default.has => Has(config_dict, l.key)) =>
            /\ outcome.kind = "mapped"
            /\ FullyBuilt(model, outcome.app)
            /\ ValueAt(outcome.app, k_db_c_e) = Get(config_dict, k_db_c_e)
            /\ ValueAt(outcome.app, k_db_c_f) = Get(config_dict, k_db_c_f))

\* With a default for every field of the inner group the entries are mapped
\* into one instance of it, in any order of the entries.
InnerGroupWithDefaults ==
    (outcome.kind # "none" /\ model \in InnerModels) =>
        ((/\ Has(config_dict, k_db_c_e)
          /\ Has(config_dict, k_db_c_f)
          /\ \A l \in LeafFields(model, << >>) : l.field.default.has) =>
            /\ outcome.kind = "mapped"
            /\ ValueAt(outcome.app, k_db_c_e) = Get(config_dict, k_db_c_e)
            /\ ValueAt(outcome.app, k_db_c_f) = Get(config_dict, k_db_c_f))

(***************************************************************************)
(* A Resolver used for several resolve() calls                             *)
(*                                                                         *)
(* A source is [name, snap, own]: snap is the data it holds, and own says  *)
(* that load() hands out the nested maps of that data themselves (the      *)
(* shallow copy of Defaults.load) and not copies of them.  _deep_merge     *)
(* works in place, so while the result holds a nested map of a source      *)
(* under a key, merging into that key changes the source's map.  The maps  *)
(* of the sources here are one level deep.                                 *)
(***************************************************************************)
k_t == <<"t">>

\* for key, value in update.items() of _deep_merge(result, update), where
\* update was loaded from source j; owner[key] is the source whose own map
\* the result holds under key, 0 for none.
RECURSIVE merge_shared(_, _, _)
merge_shared(j, update, st) ==
    IF update = << >> THEN st
    ELSE LET key == update[1][1]
             value == update[1][2]
             into == Has(st.result, key) /\ IsDict(Get(st.result, key)) /\ IsDict(value)
             merged == IF into
                       THEN Dict(deep_merge(Get(st.result, key).val, value.val))
                       ELSE value
             o == IF Has(st.owner, key) THEN Get(st.owner, key) ELSE 0
         IN merge_shared(
                j, Tail(update),
                [result |-> Put(st.result, key, merged),
                 owner |-> IF into THEN st.owner
                           ELSE Put(st.owner, key,
                                    IF IsDict(value) /\ st.srcs[j].own THEN j ELSE 0),
                 srcs |-> IF into /\ o # 0
                          THEN [st.srcs EXCEPT ![o].snap = Put(@, key, merged)]
                          ELSE st.srcs])

\* The no-policy path of Resolver.resolve with its effect on the sources.
RECURSIVE resolve_shared(_, _)
resolve_shared(j, st) ==
    IF j > Len(st.srcs) THEN st
    ELSE resolve_shared(j + 1, merge_shared(j, st.srcs[j].snap, st))

\* Models with a map-valued field t whose default_factory gives a map, and
\* a leaf x.
ReuseModels ==
    {<<Field(k_t, LeafType("dict", FALSE), FALSE, TRUE, DefaultOf(Dict(d))), x>> :
        d \in {<<<<k_h, Int_(0)>>>>, <<<<k_h, Int_(0)>>, <<k_port, Int_(0)>>>>},
        x \in MapperLeaf(k_x)}

\* What the user source can hold: t as a map overriding h, adding e, or
\* empty, or no t; x or not.
ReuseSnapshots ==
    {a \o b : a \in {EmptyDict, <<<<k_x, Int_(1)>>>>},
              b \in {EmptyDict} \cup
                    {<<<<k_t, Dict(d)>>>> :
                        d \in {EmptyDict, <<<<k_h, Int_(1)>>>>, <<<<k_e, Int_(1)>>>>}}}

\* The resolver of Config.load_store: the precomputed defaults source, then
\* the user source.
reuse_sources(m, snap) ==
    <<[name |-> "defaults", snap |-> create_defaults_source(m).snap, own |-> TRUE],
      [name |-> "env", snap |-> snap, own |-> FALSE]>>

\* resolver.resolve()
ResolveShared ==
    /\ LET st == resolve_shared(1, [result |-> EmptyDict, owner |-> EmptyDict, srcs |-> sources])
       IN /\ sources' = st.srcs
          /\ outcome' = [kind |-> "resolved", result |-> st.result, given |-> sources[2].snap]
    /\ UNCHANGED <<model, policy, config_dict, store>>

\* The environment changes what the user source holds.
EnvChanges ==
    /\ \E snap \in ReuseSnapshots \ {sources[2].snap} :
          sources' = [sources EXCEPT ![2].snap = snap]
    /\ UNCHANGED <<model, policy, config_dict, outcome, store>>

InitReuse ==
    /\ model \in ReuseModels
    /\ \E snap \in ReuseSnapshots : sources = reuse_sources(model, snap)
    /\ policy = NoPolicy
    /\ config_dict = EmptyDict
    /\ outcome = NoOutcome
    /\ store = NoStore

NextReuse ==
    \/ ResolveShared
    \/ EnvChanges

SpecReuse == InitReuse /\ [][NextReuse]_vars

\* C24: resolve() leaves the data of the sources as it was, and its result
\* is the merge of what the sources hold at the call: the defaults of the
\* model and the snapshot of the user source, whatever earlier calls merged.
C24_ResolveLeavesSourcesAlone ==
    model \in ReuseModels =>
        /\ sources[1].snap = create_defaults_source(model).snap
        /\ outcome.kind = "resolved" =>
              outcome.result =
                  resolve_in_order(reuse_sources(model, outcome.given), EmptyDict)

\* The first resolve() of a resolver returns the merge of the defaults and
\* the snapshot of the user source.
FirstResolveIsTheMerge ==
    (model \in ReuseModels /\ outcome.kind = "resolved"
       /\ sources[1].snap = create_defaults_source(model).snap) =>
        outcome.result = resolve_in_order(reuse_sources(model, outcome.given), EmptyDict)

(***************************************************************************)
(* Properties of Config.load under a policy                                *)
(***************************************************************************)
\* The defaults source and the user sources of the Config.
Loaded == all_sources(model, sources)

\* Some source whose name is in the order list of k has k in its snapshot.
NamedSourceSupplies(srcs, order, k) ==
    \E i \in 1..Len(srcs) : srcs[i].name \in Range(order) /\ Has(srcs[i].snap, k)

\* The last source bearing a name of the order list of k has k in its snapshot.
LastNamedSourceSupplies(srcs, order, k) ==
    \E i \in 1..Len(srcs) :
        /\ srcs[i].name \in Range(order)
        /\ Has(srcs[i].snap, k)
        /\ \A j \in (i + 1)..Len(srcs) : srcs[j].name # srcs[i].name

\* C25 as stated: under a policy, a key of the snapshots is in the resolved
\* map if and only if some source named in the key's order list supplies it.
C25_KeyIffNamedSourceSupplies ==
    (outcome.kind # "none" /\ model \in ConfigModels /\ policy.has) =>
        \A k \in AllSnapshotKeys(Loaded) :
            Has(config_dict, k) <=> NamedSourceSupplies(Loaded, get_priority(policy, k), k)

\* C25 amended: under a policy, a key of the snapshots is in the resolved map
\* if and only if, for some name in the key's order list, the last source of
\* that name supplies it; a key left out is reported as missing by the check
\* of the required fields when its field is required.
C25_KeyIffLastNamedSourceSupplies ==
    (outcome.kind # "none" /\ model \in ConfigModels /\ policy.has) =>
        /\ KeysOf(config_dict) \subseteq AllSnapshotKeys(Loaded)
        /\ \A k \in AllSnapshotKeys(Loaded) :
              /\ Has(config_dict, k) <=>
                    LastNamedSourceSupplies(Loaded, get_priority(policy, k), k)
              /\ (~Has(config_dict, k) /\ k \in RequiredKeys(model)) =>
                    /\ validate_config(model, config_dict).kind = "error"
                    /\ k \in Range(validate_config(model, config_dict).missing_fields)
                    /\ outcome.kind = "error"
                    /\ outcome.error = "RequiredFieldError" =>
                          k \in Range(outcome.missing_fields)

\* The required field x is supplied only by a user source named "defaults",
\* the order list of x names "env" alone, and the load reported x missing.
C25_Witness ==
    /\ model \in ConfigModels
    /\ policy.has
    /\ outcome.kind = "error"
    /\ outcome.error = "RequiredFieldError"
    /\ k_x \in Range(outcome.missing_fields)
    /\ get_priority(policy, k_x) = <<"env">>
    /\ \E i \in 1..Len(sources) : sources[i].name = "defaults" /\ Has(sources[i].snap, k_x)
    /\ \A i \in 1..Len(sources) : sources[i].name = "env" => ~Has(sources[i].snap, k_x)

(***************************************************************************)
(* The policy path against the no-policy path                              *)
(***************************************************************************)
\* The names of the sources in list order.
NamesOf(srcs) == [i \in 1..Len(srcs) |-> srcs[i].name]

NoMapValues(srcs) ==
    \A i \in 1..Len(srcs) : \A j \in 1..Len(srcs[i].snap) : ~IsDict(srcs[i].snap[j][2])

OnlyShadowedSupply(srcs, k) ==
    \A i \in SuppliersOf(srcs, k) : \E j \in (i + 1)..Len(srcs) : srcs[j].name = srcs[i].name

\* C27: under a policy a name stands for the last source bearing it: a key
\* supplied only by sources that a later source of the same name follows is
\* not in the result, and a key of the result has the value of a source that
\* is the last of its name.
C27_LaterSameNamedSourceOnly ==
    (Resolved /\ policy.has) =>
        \A k \in AllSnapshotKeys(sources) :
            /\ OnlyShadowedSupply(sources, k) => ~Has(outcome.map, k)
            /\ Has(outcome.map, k) =>
                  \E i \in SuppliersOf(sources, k) :
                      /\ \A j \in (i + 1)..Len(sources) : sources[j].name # sources[i].name
                      /\ Get(outcome.map, k) = Get(sources[i].snap, k)

\* Two sources named "env", named by the order list; only the first holds
\* "s", both hold "p"; the result has no "s" and the second one's "p".
C27_Witness ==
    /\ Resolved
    /\ policy.has
    /\ Len(sources) = 2
    /\ sources[1].name = "env"
    /\ sources[2].name = "env"
    /\ Has(sources[1].snap, k_s)
    /\ ~Has(sources[2].snap, k_s)
    /\ Has(sources[2].snap, k_p)
    /\ Has(sources[1].snap, k_p)
    /\ "env" \in Range(get_priority(policy, k_s))
    /\ ~Has(outcome.map, k_s)
    /\ Get(outcome.map, k_p) = Get(sources[2].snap, k_p)

(***************************************************************************)
(* Entries that name no field                                              *)
(***************************************************************************)
k_y_h == k_y \o <<".">> \o k_h
k_x_h == k_x \o <<".">> \o k_h
k_db_y == k_db \o <<".">> \o k_y

\* Models with a leaf x and a group db with a leaf h.
StrayModels ==
    {<<x, ConfigGroup(k_db, <<h>>)>> : x \in MapperLeaf(k_x), h \in MapperLeaf(k_h)}

\* Value maps: x and db.h (or db as a map with the undeclared key y) or
\* not, and among them, in any order, entries that name no field: "y", "y.h"
\* (no field y), "x.h" (x is no group) and "db.y" (db has no field y).
StrayDicts ==
    LET base == {a \o b : a \in {EmptyDict, <<<<k_x, Int_(1)>>>>},
                          b \in {EmptyDict, <<<<k_db_h, Int_(2)>>>>,
                                 <<<<k_db, Dict(<<<<k_h, Int_(2)>>, <<k_y, Int_(3)>>>>)>>>>}}
        stray == {[i \in 1..Len(q) |-> <<q[i], Int_(4)>>] :
                     q \in UNION {OrderingsOf(ks) :
                                     ks \in {S \in SUBSET {k_y, k_y_h, k_x_h, k_db_y} :
                                                Cardinality(S) <= 2}}}
    IN {d \o e : d \in base, e \in stray} \cup {e \o d : d \in base, e \in stray}

InitStray ==
    /\ model \in StrayModels
    /\ sources = << >>
    /\ policy = NoPolicy
    /\ config_dict \in StrayDicts
    /\ outcome = NoOutcome
    /\ store = NoStore

NextStray == MapDict

SpecStray == InitStray /\ [][NextStray]_vars

\* Every key of the instance names a field of its type, at every level.
RECURSIVE DeclaredKeys(_, _)
DeclaredKeys(fields, inst) ==
    \A i \in 1..Len(inst.val) :
        /\ HasField(fields, inst.val[i][1])
        /\ (IsInst(inst.val[i][2]) \/ IsDict(inst.val[i][2])) =>
              /\ IsGroup(FieldNamed(fields, inst.val[i][1]))
              /\ IsInst(inst.val[i][2])
              /\ DeclaredKeys(FieldNamed(fields, inst.val[i][1]).type.fields, inst.val[i][2])

\* The first dotted segment of the key names no field of the model, or the
\* key is dotted and its first segment names a field that is no group.
NamesNoField(fields, key) ==
    LET first == IF HasDot(key) THEN SplitFirstDot(key)[1] ELSE key
    IN \/ ~HasField(fields, first)
       \/ HasDot(key) /\ ~IsGroup(FieldNamed(fields, first))

WithoutStrays(fields, cd) == SelectSeq(cd, LAMBDA it : ~NamesNoField(fields, it[1]))

\* C28: every key of the mapped instance, at every level, is a field of the
\* schema type at that level; the entries whose first segment names no field
\* and the dotted entries under a field that is no group change nothing: the
\* mapping gives what it gives without them and raises nothing for them.
C28_OnlyDeclaredKeys ==
    (outcome.kind # "none" /\ model \in StrayModels) =>
        LET plain == dict_to_model(WithoutStrays(model, config_dict), model)
        IN /\ outcome.kind = "mapped" => DeclaredKeys(model, outcome.app)
           /\ plain.ok => (outcome.kind = "mapped" /\ outcome.app = plain.val)
           /\ ~plain.ok => (outcome.kind = "error" /\ outcome.error = plain.err)

\* A value map with x, db as a map holding the undeclared y, and the
\* entries "y" and "x.h" was mapped.
C28_Witness ==
    /\ model \in StrayModels
    /\ outcome.kind = "mapped"
    /\ Has(config_dict, k_y)
    /\ Has(config_dict, k_x_h)
    /\ Has(config_dict, k_db)
    /\ Has(Get(config_dict, k_db).val, k_y)
    /\ ValueAt(outcome.app, k_x) = Int_(1)
    /\ ValueAt(outcome.app, k_db_h) = Int_(2)

(***************************************************************************)
(* Etcd.watch                                                              *)
(*                                                                         *)
(* The watching source is sources[1] = [name, initial_state]: the state    *)
(* the generator tracks, first read from etcd and then updated from the    *)
(* events.  The outcome is the ChangeEvent the last event yielded.         *)
(***************************************************************************)
prefix_bytes == <<"/", "a", "/">>

StartsWith(key, prefix) == Len(key) >= Len(prefix) /\ SubSeq(key, 1, Len(prefix)) = prefix

\* key_str.replace("/", "__")
RECURSIVE ReplaceSlash(_)
ReplaceSlash(key) ==
    IF key = << >> THEN << >>
    ELSE (IF key[1] = "/" THEN <<"_", "_">> ELSE <<key[1]>>) \o ReplaceSlash(Tail(key))

\* The key of an event as the model spells it.
event_key(key_bytes) ==
    normalize_key(ReplaceSlash(SubSeq(key_bytes, Len(prefix_bytes) + 1, Len(key_bytes))))

\* get_all_field_keys(model): the keys of the catalogue.
get_all_field_keys(m) == {info.normalized_key : info \in Range(get_all_fields_info(m, << >>))}

Bytes(b) == [tag |-> "bytes", val |-> b]

\* The values etcd holds: JSON numbers, JSON null, text that is no JSON, the
\* empty value and bytes that are no UTF-8.
EtcdValues == {"1", "2", "null", "ab", "", "\\xff"}

\* value.decode("utf-8") and json.loads where they work, the value itself
\* where it is empty or cannot be decoded.
decode_value(value) ==
    IF value = "" \/ value = "\\xff" THEN Bytes(value)
    ELSE IF value = "null" THEN NoneV
    ELSE IF \E i \in 1..Len(NumericStrings) : NumericStrings[i] = value
    THEN Int_((CHOOSE i \in 1..Len(NumericStrings) : NumericStrings[i] = value) - 1)
    ELSE Str(value)

\* initial_state.pop(key, None)
Remove(d, k) == SelectSeq(d, LAMBDA it : it[1] # k)

\* initial_state.get(key)
GetOrNone(d, k) == IF Has(d, k) THEN Get(d, k) ELSE NoneV

ChangeEvent(key, old_value, new_value, event_type) ==
    [kind |-> "event", key |-> key, old_value |-> old_value, new_value |-> new_value,
     event_type |-> event_type]

\* The keys of the events: x, db/h and DB__H of the model, y of no field,
\* and a key outside the prefix.
EventKeys ==
    {prefix_bytes \o k : k \in {<<"X">>, <<"d", "b", "/", "h">>, <<"D", "B", "_", "_", "H">>, <<"y">>}}
    \cup {<<"/", "b", "/", "x">>}

\* A PutEvent of the watch.
PutEvent(key_bytes, value) ==
    /\ StartsWith(key_bytes, prefix_bytes)
    /\ event_key(key_bytes) \in get_all_field_keys(model)
    /\ LET normalized_key == event_key(key_bytes)
           old_value == GetOrNone(sources[1].initial_state, normalized_key)
           new_value == decode_value(value)
           event_type == IF old_value = NoneV THEN "added" ELSE "modified"
       IN /\ sources' = [sources EXCEPT ![1].initial_state = Put(@, normalized_key, new_value)]
          /\ outcome' = ChangeEvent(normalized_key, old_value, new_value, event_type)
    /\ UNCHANGED <<model, policy, config_dict, store>>

\* A DeleteEvent of the watch.
DeleteEvent(key_bytes) ==
    /\ StartsWith(key_bytes, prefix_bytes)
    /\ event_key(key_bytes) \in get_all_field_keys(model)
    /\ LET normalized_key == event_key(key_bytes)
           old_value == GetOrNone(sources[1].initial_state, normalized_key)
       IN /\ sources' = [sources EXCEPT ![1].initial_state = Remove(@, normalized_key)]
          /\ outcome' = ChangeEvent(normalized_key, old_value, NoneV, "deleted")
    /\ UNCHANGED <<model, policy, config_dict, store>>

\* What client.get_prefix gives when the watch starts: nothing, x, or db.h.
InitWatch ==
    /\ model \in StrayModels
    /\ \E first \in {EmptyDict} \cup
                    {<<<<k, decode_value(v)>>>> : k \in {k_x, k_db_h}, v \in {"1", "null"}} :
          sources = <<[name |-> "etcd", initial_state |-> first]>>
    /\ policy = NoPolicy
    /\ config_dict = EmptyDict
    /\ outcome = NoOutcome
    /\ store = NoStore

NextWatch ==
    \/ \E key_bytes \in EventKeys, value \in EtcdValues : PutEvent(key_bytes, value)
    \/ \E key_bytes \in EventKeys : DeleteEvent(key_bytes)

SpecWatch == InitWatch /\ [][NextWatch]_vars

\* The state the watcher tracks.
Tracked == sources[1].initial_state

\* C29: a put of a model key is emitted as "added" exactly when the key is
\* not in the tracked state, and otherwise as "modified" with the value last
\* recorded for the key as old_value; the new value is recorded.  A delete is
\* emitted as "deleted" with new_value None and takes the key out of the
\* tracked state.
C29_WatchEventTypes ==
    [][(model \in StrayModels) =>
         (LET ev == outcome'
          IN /\ ev.kind = "event"
             /\ ev.key \in get_all_field_keys(model)
             /\ ev.event_type \in {"added", "modified", "deleted"}
             /\ ev.event_type # "deleted" =>
                   /\ (ev.event_type = "added") <=> ~Has(Tracked, ev.key)
                   /\ ev.event_type = "modified" => ev.old_value = Get(Tracked, ev.key)
                   /\ Has(Tracked', ev.key)
                   /\ Get(Tracked', ev.key) = ev.new_value
             /\ ev.event_type = "deleted" =>
                   /\ ev.new_value = NoneV
                   /\ ~Has(Tracked', ev.key))]_vars

\* The same with "the key is not in the tracked state or its recorded value
\* is None" for "added".
WatchAddedWhenOldValueIsNone ==
    [][(model \in StrayModels) =>
         (LET ev == outcome'
          IN /\ ev.kind = "event"
             /\ ev.event_type # "deleted" =>
                   /\ (ev.event_type = "added") <=> GetOrNone(Tracked, ev.key) = NoneV
                   /\ ev.old_value = GetOrNone(Tracked, ev.key)
                   /\ Get(Tracked', ev.key) = ev.new_value
             /\ ev.event_type = "deleted" =>
                   /\ ev.new_value = NoneV
                   /\ ev.old_value = GetOrNone(Tracked, ev.key)
                   /\ ~Has(Tracked', ev.key))]_vars

(***************************************************************************)
(* CLI.load                                                                *)
(*                                                                         *)
(* The sources are sources[1] = [name, snap], a lower-priority source with *)
(* its snapshot, and sources[2] = [name, argv], the CLI source placed      *)
(* last.  Command-line tokens and the text of values are sequences of      *)
(* characters.                                                             *)
(***************************************************************************)
MaxArgv == 3

BoolV(b) == [tag |-> "bool", val |-> b]

k_no_x == <<"n", "o", "_", "x">>
k_db_uh == <<"d", "b", "_", "h">>
k_db_p == k_db \o <<".">> \o k_p

\* str.replace(a, b) for single characters.
ReplaceChar(key, a, b) == [i \in 1..Len(key) |-> IF key[i] = a THEN b ELSE key[i]]

\* CLI._get_field_types: the fields of the model in declaration order, the
\* children of a dataclass field under "<field>.<child>", one level deep.
RECURSIVE nested_field_types(_, _, _)
nested_field_types(name, children, result) ==
    IF children = << >> THEN result
    ELSE nested_field_types(
             name, Tail(children),
             Put(result, name \o <<".">> \o children[1].name, children[1].type))

RECURSIVE get_field_types_from(_, _)
get_field_types_from(fields, result) ==
    IF fields = << >> THEN result
    ELSE get_field_types_from(
             Tail(fields),
             IF IsGroup(fields[1])
             THEN nested_field_types(fields[1].name, fields[1].type.fields, result)
             ELSE Put(result, fields[1].name, fields[1].type))

get_field_types(m) == get_field_types_from(m, EmptyDict)

arg_name_hyphen(normalized_key) == ReplaceChar(ReplaceChar(normalized_key, ".", "-"), "_", "-")
arg_name_underscore(normalized_key) == ReplaceChar(normalized_key, ".", "_")

\* One parser.add_argument call: option string, dest, action, type, default.
Argument(name, dest, action, type, default) ==
    [opt |-> <<"-", "-">> \o name, dest |-> dest, action |-> action, type |-> type,
     default |-> default]

no_(name) == <<"n", "o", "-">> \o name

\* A mutant of field_options that leaves the flags of a bool field with the
\* default argparse gives store_true and store_false (False and True).
field_options_flag_defaults(normalized_key, field_type) ==
    LET hyphen == arg_name_hyphen(normalized_key)
        underscore == arg_name_underscore(normalized_key)
        dest == ReplaceChar(normalized_key, ".", "_")
        both(a, b) == IF hyphen # underscore THEN <<a, b>> ELSE <<a>>
    IN IF field_type.py = "bool"
       THEN both(Argument(hyphen, dest, "store_true", field_type, BoolV(FALSE)),
                 Argument(underscore, dest, "store_true", field_type, BoolV(FALSE)))
            \o both(Argument(no_(hyphen), dest, "store_false", field_type, BoolV(TRUE)),
                    Argument(no_(underscore), dest, "store_false", field_type, BoolV(TRUE)))
       ELSE both(Argument(hyphen, dest, "store", field_type, NoneV),
                 Argument(underscore, dest, "store", field_type, NoneV))

\* The add_argument calls CLI.load makes for one field, in order: every one
\* with default=None.
field_options(normalized_key, field_type) ==
    LET hyphen == arg_name_hyphen(normalized_key)
        underscore == arg_name_underscore(normalized_key)
        dest == ReplaceChar(normalized_key, ".", "_")
        both(a, b) == IF hyphen # underscore THEN <<a, b>> ELSE <<a>>
    IN IF field_type.py = "bool"
       THEN both(Argument(hyphen, dest, "store_true", field_type, NoneV),
                 Argument(underscore, dest, "store_true", field_type, NoneV))
            \o both(Argument(no_(hyphen), dest, "store_false", field_type, NoneV),
                    Argument(no_(underscore), dest, "store_false", field_type, NoneV))
       ELSE both(Argument(hyphen, dest, "store", field_type, NoneV),
                 Argument(underscore, dest, "store", field_type, NoneV))

Registered(parser, opt) == \E i \in 1..Len(parser) : parser[i].opt = opt

\* The try block around a field's add_argument calls: an option string the
\* parser already has raises, and the rest of that field's calls are skipped.
RECURSIVE add_arguments(_, _)
add_arguments(parser, arguments) ==
    IF arguments = << >> THEN parser
    ELSE IF Registered(parser, arguments[1].opt) THEN parser
    ELSE add_arguments(Append(parser, arguments[1]), Tail(arguments))

RECURSIVE build_parser(_, _)
build_parser(field_types, parser) ==
    IF field_types = << >> THEN parser
    ELSE build_parser(
             Tail(field_types),
             add_arguments(parser,
                           field_options(normalize_key(field_types[1][1]),
                                         field_types[1][2])))

\* key_mapping: normalized key -> argparse dest, for every field.
RECURSIVE key_mapping(_, _)
key_mapping(field_types, mapping) ==
    IF field_types = << >> THEN mapping
    ELSE key_mapping(Tail(field_types),
                     Put(mapping, normalize_key(field_types[1][1]),
                         ReplaceChar(normalize_key(field_types[1][1]), ".", "_")))

Digits == <<"0", "1", "2", "3", "4", "5", "6", "7", "8", "9">>
IsDigit(c) == \E i \in 1..Len(Digits) : Digits[i] = c
DigitValue(c) == (CHOOSE i \in 1..Len(Digits) : Digits[i] = c) - 1

RECURSIVE DecimalValue(_, _)
DecimalValue(text, acc) ==
    IF text = << >> THEN acc
    ELSE DecimalValue(Tail(text), 10 * acc + DigitValue(text[1]))

\* make_type_converter(ftype): ftype(value), and the text itself when the
\* conversion raises.
converter(ftype, value) ==
    IF ftype.py = "int" /\ value # << >> /\ \A i \in 1..Len(value) : IsDigit(value[i])
    THEN Int_(DecimalValue(value, 0))
    ELSE Str(value)

\* The namespace before parsing: each dest with the default of the first
\* argument registered for it.
RECURSIVE namespace_defaults(_, _)
namespace_defaults(parser, namespace) ==
    IF parser = << >> THEN namespace
    ELSE namespace_defaults(
             Tail(parser),
             IF Has(namespace, parser[1].dest) THEN namespace
             ELSE Put(namespace, parser[1].dest, parser[1].default))

IndexOfEquals(token) ==
    IF \E i \in 1..Len(token) : token[i] = "="
    THEN CHOOSE i \in 1..Len(token) : token[i] = "=" /\ \A j \in 1..(i - 1) : token[j] # "="
    ELSE 0

\* The option string of a token: the part before "=" of "--name=value".
OptionString(token) ==
    IF IndexOfEquals(token) > 0 THEN SubSeq(token, 1, IndexOfEquals(token) - 1) ELSE token

ExplicitArg(token) == SubSeq(token, IndexOfEquals(token) + 1, Len(token))

ActionFor(parser, opt) == parser[CHOOSE i \in 1..Len(parser) : parser[i].opt = opt]

\* parser.parse_known_args(argv) from token i on: a registered option stores
\* into its dest, a valued option takes "=value" or the next token unless
\* that one begins with "-", "--" ends the options, anything else is left
\* among the extras.  An error of argparse exits the process.
RECURSIVE parse_from(_, _, _, _)
parse_from(parser, argv, i, namespace) ==
    IF i > Len(argv) THEN Returned(namespace)
    ELSE IF argv[i] = <<"-", "-">> THEN Returned(namespace)
    ELSE IF ~Registered(parser, OptionString(argv[i]))
         THEN parse_from(parser, argv, i + 1, namespace)
    ELSE LET action == ActionFor(parser, OptionString(argv[i]))
             explicit == IndexOfEquals(argv[i]) > 0
         IN IF action.action = "store_true" \/ action.action = "store_false"
            THEN IF explicit THEN Raised("SystemExit")
                 ELSE parse_from(parser, argv, i + 1,
                                 Put(namespace, action.dest,
                                     BoolV(action.action = "store_true")))
            ELSE IF explicit
                 THEN parse_from(parser, argv, i + 1,
                                 Put(namespace, action.dest,
                                     converter(action.type, ExplicitArg(argv[i]))))
            ELSE IF i + 1 <= Len(argv) /\ ~StartsWith(argv[i + 1], <<"-">>)
                 THEN parse_from(parser, argv, i + 2,
                                 Put(namespace, action.dest,
                                     converter(action.type, argv[i + 1])))
            ELSE Raised("SystemExit")

parse_known_args(parser, argv) ==
    parse_from(parser, argv, 1, namespace_defaults(parser, EmptyDict))

\* The closing loop of CLI.load: a key for every dest whose value is not None.
RECURSIVE collect_args(_, _, _)
collect_args(mapping, args, result) ==
    IF mapping = << >> THEN result
    ELSE LET value == IF Has(args, mapping[1][2]) THEN Get(args, mapping[1][2]) ELSE NoneV
         IN collect_args(Tail(mapping), args,
                         IF value # NoneV THEN Put(result, mapping[1][1], value)
                         ELSE result)

CLI_load(m, argv) ==
    LET field_types == get_field_types(m)
        args == parse_known_args(build_parser(field_types, << >>), argv)
    IN IF args.ok
       THEN Returned(collect_args(key_mapping(field_types, EmptyDict), args.val, EmptyDict))
       ELSE Raised("SystemExit")

\* Models of the command line: a flag and a group; a flat field and a group
\* child that share the spelling "--db-h"; a flag x beside a field no_x, in
\* both orders of declaration.
CLIModels ==
    LET str == LeafType("str", FALSE)
        int == LeafType("int", FALSE)
        bool == LeafType("bool", FALSE)
        leaf(name, type) == Field(name, type, FALSE, FALSE, NoDefault)
    IN {<<leaf(k_x, bool), Group(k_db, <<leaf(k_h, str), leaf(k_p, int)>>)>>,
        <<leaf(k_db_uh, str), Group(k_db, <<leaf(k_h, str)>>)>>,
        <<leaf(k_x, bool), leaf(k_no_x, str)>>,
        <<leaf(k_no_x, str), leaf(k_x, bool)>>}

CLITokens ==
    {<<"-", "-", "x">>, <<"-", "-", "n", "o", "-", "x">>,
     <<"-", "-", "d", "b", "-", "h">>, <<"-", "-", "d", "b", "_", "h">>,
     <<"-", "-", "d", "b", "-", "p", "=", "7">>,
     <<"-", "-", "d", "b", "-", "p", "=", "v">>,
     <<"-", "-">>, <<"v">>}

\* What the lower-priority source holds for a field of the given type.
LowerValue(type) ==
    IF type.py = "bool" THEN BoolV(TRUE)
    ELSE IF type.py = "int" THEN Int_(1)
    ELSE Str(<<"l", "o">>)

RECURSIVE lower_snapshot(_, _, _)
lower_snapshot(field_types, keys, result) ==
    IF field_types = << >> THEN result
    ELSE lower_snapshot(
             Tail(field_types), keys,
             IF normalize_key(field_types[1][1]) \in keys
             THEN Put(result, normalize_key(field_types[1][1]),
                      LowerValue(field_types[1][2]))
             ELSE result)

FieldKeys(m) == {normalize_key(k) : k \in KeysOf(get_field_types(m))}

InitCLI ==
    /\ model \in CLIModels
    /\ \E keys \in SUBSET FieldKeys(model), argv \in SeqsUpTo(CLITokens, MaxArgv) :
           sources = <<[name |-> "env",
                        snap |-> lower_snapshot(get_field_types(model), keys, EmptyDict)],
                       [name |-> "cli", argv |-> argv]>>
    /\ policy = NoPolicy
    /\ config_dict = EmptyDict
    /\ outcome = [kind |-> "start"]
    /\ store = NoStore

\* Resolver.resolve over the two sources: the snapshot of the first, then
\* CLI.load() of the second merged over it.
ResolveCLI ==
    /\ outcome.kind = "start"
    /\ LET loaded == CLI_load(model, sources[2].argv)
       IN IF loaded.ok
          THEN /\ config_dict' = resolve_in_order(
                                     <<sources[1], [name |-> "cli", snap |-> loaded.val]>>,
                                     EmptyDict)
               /\ outcome' = [kind |-> "resolved", loaded |-> loaded.val]
          ELSE /\ outcome' = [kind |-> "exit", loaded |-> EmptyDict]
               /\ UNCHANGED config_dict
    /\ UNCHANGED <<model, sources, policy, store>>

NextCLI == ResolveCLI

SpecCLI == InitCLI /\ [][NextCLI]_vars

(***************************************************************************)
(* C30                                                                     *)
(***************************************************************************)
\* The option strings that spell a field on the command line.
OptionStringsOf(normalized_key, field_type) ==
    {a.opt : a \in Range(field_options(normalized_key, field_type))}

\* argv holds one of the field's option strings, bare or as "--name=value".
OptionGiven(normalized_key, field_type, argv) ==
    \E i \in 1..Len(argv) :
        OptionString(argv[i]) \in OptionStringsOf(normalized_key, field_type)

\* C30: CLI.load() returns keys of the model's fields only, and a key only
\* if argv holds an option of that field; so for a field whose option is not
\* on the command line, the resolved value map of a source list ending in
\* the CLI source holds what the lower-priority source holds for it
\* (the same value, or as little).
C30_CLIKeysOnlyForGivenOptions ==
    outcome.kind = "resolved" =>
        LET field_types == get_field_types(model)
            lower == sources[1].snap
        IN /\ KeysOf(outcome.loaded) \subseteq FieldKeys(model)
           /\ \A i \in 1..Len(field_types) :
                  LET key == normalize_key(field_types[i][1])
                      given == OptionGiven(key, field_types[i][2], sources[2].argv)
                  IN /\ Has(outcome.loaded, key) => given
                     /\ ~given =>
                            /\ Has(config_dict, key) <=> Has(lower, key)
                            /\ Has(lower, key) => Get(config_dict, key) = Get(lower, key)

\* The lower source holds two fields, the command line gives the option of
\* one of them only: that one is overridden, the other keeps the lower value.
C30_Witness ==
    /\ outcome.kind = "resolved"
    /\ \E given, absent \in FieldKeys(model) :
           /\ Has(sources[1].snap, given) /\ Has(sources[1].snap, absent)
           /\ Has(outcome.loaded, given) /\ ~Has(outcome.loaded, absent)
           /\ Get(config_dict, given) = Get(outcome.loaded, given)
           /\ Get(config_dict, given) # Get(sources[1].snap, given)
           /\ Get(config_dict, absent) = Get(sources[1].snap, absent)
           /\ \A i \in 1..Len(sources[2].argv) :
                  OptionString(sources[2].argv[i])
                      \notin UNION {OptionStringsOf(absent, t) :
                                        t \in {Get(get_field_types(model), k) :
                                                   k \in {kk \in KeysOf(get_field_types(model)) :
                                                              normalize_key(kk) = absent}}}

====
